---------------------------- MODULE Spec2Model ----------------------------
(***************************************************************************)
(* The exchange engine of go-aurora (aurora.go): one Communicate call      *)
(* builds a 10-byte request frame, writes it to Inverter.Conn, reads an    *)
(* 8-byte response frame, checks its CRC and the transmission state and    *)
(* returns the command-specific slice of the payload.                      *)
(*                                                                         *)
(* Byte arrays of the source ([8]byte, [6]byte) are functions over         *)
(* 0..7 / 0..5 so that indices are the source's; byte streams and slices   *)
(* are sequences.                                                          *)
(***************************************************************************)
EXTENDS Integers, Sequences, FiniteSets, TLC

VARIABLES
    Address,      \* Inverter.Address
    connState,    \* Inverter.Conn: "open", "readerGone" (writes fail) or "writerGone" (reads end)
    connOut,      \* bytes written to Conn and not yet taken by the device
    connIn,       \* bytes delivered by the device and not yet read from Conn
    args,         \* the argument list of the request being written (forgotten once the device took the frame)
    deviceSent,   \* the response frame as the device put it on the line (before line noise)
    pc,           \* position of the caller: "idle", "reading" (blocked in binary.Read), "done"
    op,           \* the entry point that was called
    param,        \* the entry point's own parameter (forgotten with args)
    command,      \* Communicate's command parameter
    inputBuffer,  \* Communicate's inputBuffer once read: [Payload, CRC]
    result,       \* returned byte slice: [isNil, bytes]
    err,          \* returned error: [id, msg]
    value,        \* what the entry point returned besides the error; the destination
    accessorErr,  \* the error the entry point returned
    received,     \* the bytes the current call's binary.Read took from Conn
    ioLog,        \* the operations the current call performed on Conn, in order
    crcInput,     \* calculateCRC's input, when the function is run on its own
    crcOut,       \* what calculateCRC returned for crcInput (-1: not yet run)
    receiver,     \* the value a String method is called on: [kind, code]
    strPc,        \* position of the String call: "idle", "call", "done"
    str,          \* the string the String method returned
    memo,         \* what each exchange that was made on the handle returned, by what it was handed
    mainPc,       \* cmd/monitor: position of the device goroutine
    unit,         \* cmd/monitor: index in device.UnitAddresses of the address at hand
    calls,        \* cmd/monitor: withDeadline calls made so far; the last one is the current one
    returnedErr,  \* cmd/monitor: what the last withDeadline call returned
    chans,        \* cmd/monitor: channel c of each withDeadline call: [buf, closed]
    workers,      \* cmd/monitor: the goroutine each withDeadline call started
    Results,      \* cmd/monitor: buffer.Results, by index of the address
    mu,           \* cmd/monitor: buffer's RWMutex: [writer, readers]
    handlerPc,    \* cmd/monitor: position of the /json handler
    fault         \* cmd/monitor: how the process ended, "none" while it runs

\* the exchange on one Inverter handle
exchangeVars == <<Address, connState, connOut, connIn, args, deviceSent, pc, op, param, command,
                  inputBuffer, result, err, value, accessorErr, received, ioLog>>

\* calculateCRC run on its own
crcVars == <<crcInput, crcOut>>

\* a String method of a code-table type run on its own
stringVars == <<receiver, strPc, str>>

\* the monitor program
monitorVars == <<mainPc, unit, calls, returnedErr, chans, workers, Results, mu, handlerPc,
                 fault>>

\* what an exchange leaves alone
sideVars == <<crcVars, stringVars, memo, monitorVars>>

vars == <<exchangeVars, crcVars, stringVars, memo, monitorVars>>

\* no String method is being run
StringAtRest ==
    /\ receiver = [kind |-> "none", code |-> 0]
    /\ strPc = "idle"
    /\ str = ""

\* no exchange is remembered
NoMemo == memo = {}

\* the monitor program is not running
MonitorAtRest ==
    /\ mainPc = "off"
    /\ unit = 0
    /\ calls = 0
    /\ returnedErr = "nil"
    /\ chans = <<>>
    /\ workers = <<>>
    /\ Results = <<>>
    /\ mu = [writer |-> "none", readers |-> {}]
    /\ handlerPc = "off"
    /\ fault = "none"

---------------------------------------------------------------------------
(* Bounds of the model *)

\* longest argument list handed to Communicate
MaxArgs == 7

---------------------------------------------------------------------------
(* Command, selector and transmission-state codes *)

\* A const ( ... ) block as the list of its names, "_" for a blank
\* identifier; iota is the index of a name's line in the block, from 0.
iota(block, name) == (CHOOSE i \in 1..Len(block) : block[i] = name) - 1

\* DSParameterBlock with no blank line before DSParameter("DSPInput1Current")
DSParameterBlockNoGap ==
    << "DSPGridVoltage", "DSPGridCurrent", "DSPGridPower", "DSPFrequency", "DSPVbulk",
       "DSPIleakDCDC", "DSPIleakInverter", "DSPPin1", "DSPPin2", "_",
       "DSPInverterTemperature", "DSPBoosterTemperature", "DSPInput1Voltage",
       "DSPInput1Current", "DSPInput2Voltage", "DSPInput2Current" >>

CommandBlock ==
    << "GetState", "_", "GetPartNumber", "_", "_", "_", "_", "_", "GetVersion", "GetDSP",
       "_", "_", "_", "GetSerialNumber", "_", "GetManufacturingDate", "_", "_", "_", "_",
       "GetTime", "SetTime", "GetFirmwareVersion", "_", "_", "_", "GetLast10SecEnergy",
       "GetConfiguration", "GetCumulatedEnergy", "_", "GetCounters", "_", "_", "_", "_", "_",
       "GetLast4Alarms" >>

CumulationPeriodBlock ==
    << "CumulatedDaily", "CumulatedWeekly", "_", "CumulatedMonthly", "CumulatedYearly",
       "CumulatedTotal", "CumulatedPartial" >>

DSParameterBlock ==
    << "DSPGridVoltage", "DSPGridCurrent", "DSPGridPower", "DSPFrequency", "DSPVbulk",
       "DSPIleakDCDC", "DSPIleakInverter", "DSPPin1", "DSPPin2", "_",
       "DSPInverterTemperature", "DSPBoosterTemperature", "DSPInput1Voltage", "_",
       "DSPInput1Current", "DSPInput2Voltage", "DSPInput2Current", "DSPGridVoltageDCDC",
       "DSPGridFrequencyDCDC", "DSPIsolationResistance", "DSPVbulkDCDC",
       "DSPAverageGridVoltage", "DSPVbulkMid", "DSPPowerPeak", "DSPPowerPeakToday",
       "DSPGridVoltageNeutral", "DSPWindGeneratorFrequency", "DSPGridVoltageNeutralPhase",
       "DSPGridCurrentPhaseR", "DSPGridCurrentPhaseS", "DSPGridCurrentPhaseT",
       "DSPFrequencyPhaseR", "DSPFrequencyPhaseS", "DSPFrequencyPhaseT", "DSPVbulkPositive",
       "DSPVbulkNegative", "DSPSupervisorTemperature", "DSPAlimTemperature",
       "DSPHeatSinkTemperature", "DSPTemperature1", "DSPTemperature2", "DSPTemperature3",
       "DSPFan1Speed", "DSPFan2Speed", "DSPFan3Speed", "DSPFan4Speed", "DSPFan5Speed",
       "DSPPowerSaturationLimit", "DSPRiferimentoAnelloBulk", "DSPVpanelMicro",
       "DSPGridVoltagePhaseR", "DSPGridVoltagePhaseS", "DSPGridVoltagePhaseT" >>

CounterBlock == << "CounterTotal", "CounterPartial", "CounterGrid", "CounterReset" >>

\* GetState Command = 50 + iota, repeated on every line of the block
Command(name) == 50 + iota(CommandBlock, name)
\* CumulationPeriod("CumulatedDaily") CumulationPeriod = iota
CumulationPeriod(name) == iota(CumulationPeriodBlock, name)
\* DSParameter("DSPGridVoltage") DSParameter = (1 + iota) down to DSPPin2, then
\* _ DSParameter = (11 + iota) from the tenth line on
DSParameter(name) ==
    IF iota(DSParameterBlock, name) < 9
    THEN 1 + iota(DSParameterBlock, name)
    ELSE 11 + iota(DSParameterBlock, name)
\* Counter("CounterTotal") Counter = iota
Counter(name) == iota(CounterBlock, name)

GetState == Command("GetState")
GetPartNumber == Command("GetPartNumber")
GetVersion == Command("GetVersion")
GetDSP == Command("GetDSP")
GetSerialNumber == Command("GetSerialNumber")
GetManufacturingDate == Command("GetManufacturingDate")
GetTime == Command("GetTime")
SetTime == Command("SetTime")
GetFirmwareVersion == Command("GetFirmwareVersion")
GetLast10SecEnergy == Command("GetLast10SecEnergy")
GetConfiguration == Command("GetConfiguration")
GetCumulatedEnergy == Command("GetCumulatedEnergy")
GetCounters == Command("GetCounters")
GetLast4Alarms == Command("GetLast4Alarms")

CumulatedMonthly == CumulationPeriod("CumulatedMonthly")


TSOk == 0
TSCommandNotImplemented == 52
TSVariableDoesNotExist == 53
TSValueOutOfRange == 54
TSEEpromNotAccessible == 55
TSMicroError == 56
TSNotExecuted == 57
TSVariableNotAvailable == 58

---------------------------------------------------------------------------
(* Checksum engine: calculateCRC, aurora.go lines 85-98 *)

\* uint16(0xffff), the accumulator's start value and the mask of ^crc
CRCInit == 65535

\* x ^ (1 << k) on an unsigned integer
FlipBit(x, k) == IF (x \div (2 ^ k)) % 2 = 1 THEN x - 2 ^ k ELSE x + 2 ^ k

\* x ^ 0x8408 for a 16-bit x: 0x8408 = 2^15 + 2^10 + 2^3
XorPoly(x) == FlipBit(FlipBit(FlipBit(x, 3), 10), 15)

\* One pass of the inner loop's body (lines 89-93): the test
\* (crc&0x0001)^uint16(data&0x01) == 1 and the two shifts.
crcBit(crc, data) ==
    IF (crc % 2) # (data % 2) THEN XorPoly(crc \div 2) ELSE crc \div 2

\* The inner loop (line 88): for i, data := 0, chr; i < 8; i, data = i+1, data>>1
\* (c is a uint16; the test on it only makes its evaluation strict)
RECURSIVE crcByte(_, _, _)
crcByte(crc, data, i) ==
    IF i < 8
    THEN LET c == crcBit(crc, data)
         IN  IF c >= 0 THEN crcByte(c, data \div 2, i + 1) ELSE c
    ELSE crc

\* The outer loop (line 87) over input[k..]
RECURSIVE crcLoop(_, _, _)
crcLoop(crc, input, k) ==
    IF k <= Len(input)
    THEN LET c == crcByte(crc, input[k], 0)
         IN  IF c >= 0 THEN crcLoop(c, input, k + 1) ELSE c
    ELSE crc

\* calculateCRC returning the accumulator as it is, without the complement
calculateCRCNoComplement(input) == crcLoop(CRCInit, input, 1)

\* return ^crc on uint16
calculateCRC(input) == CRCInit - crcLoop(CRCInit, input, 1)

---------------------------------------------------------------------------
(* Frame codec *)

\* Argument.Byte() of the four concrete argument types (types.go 103-121):
\* each is byte(x) of a byte-valued type.
ArgByte(arg) == arg.v % 256

\* argLoop that, instead of stopping at the 7th argument, stores every
\* later argument in the last slot
RECURSIVE argLoopClamp(_, _, _, _)
argLoopClamp(Payload, lastIndex, as, index) ==
    IF index >= Len(as)
    THEN [Payload |-> Payload, lastIndex |-> lastIndex]
    ELSE LET slot == IF index > 5 THEN 7 ELSE index + 2
         IN  argLoopClamp([Payload EXCEPT ![slot] = ArgByte(as[index + 1])],
                          slot, as, index + 1)

\* The loop of lines 33-39 from position index (0-based) on; yields the
\* payload and lastIndex.
RECURSIVE argLoop(_, _, _, _)
argLoop(Payload, lastIndex, as, index) ==
    IF index >= Len(as) \/ index > 5
    THEN [Payload |-> Payload, lastIndex |-> lastIndex]
    ELSE argLoop([Payload EXCEPT ![index + 2] = ArgByte(as[index + 1])],
                 index + 2, as, index + 1)

\* Payload: [8]byte{i.Address, byte(command), 32, 32, 32, 32, 32, 32}
initialPayload(address, cmd) ==
    [k \in 0..7 |-> IF k = 0 THEN address ELSE IF k = 1 THEN cmd ELSE 32]

\* buildPayload without the 0 after the last argument
buildPayloadNoTerminator(address, cmd, as) ==
    argLoop(initialPayload(address, cmd), 1, as, 0).Payload

\* Lines 29-44: the 8 payload bytes of the request.
buildPayload(address, cmd, as) ==
    LET loop == argLoop(initialPayload(address, cmd), 1, as, 0)
    IN  IF loop.lastIndex < 7
        THEN [loop.Payload EXCEPT ![loop.lastIndex + 1] = 0]
        ELSE loop.Payload

\* An array [n]byte as the byte sequence of the slice a[from:]
Slice(a, from, n) == [k \in 1..(n - from) |-> a[from + k - 1]]

\* Lines 29-46: outputBuffer with its CRC over Payload[:]
buildOutput(address, cmd, as) ==
    LET Payload == buildPayload(address, cmd, as)
    IN  [Payload |-> Payload, CRC |-> calculateCRC(Slice(Payload, 0, 8))]

\* encodeOutput with the CRC's high byte first
encodeOutputBigEndian(buf) ==
    Slice(buf.Payload, 0, 8) \o <<buf.CRC \div 256, buf.CRC % 256>>

\* binary.Write(i.Conn, binary.LittleEndian, outputBuffer): the array as it
\* is, then the uint16 low byte first.
encodeOutput(buf) == Slice(buf.Payload, 0, 8) \o <<buf.CRC % 256, buf.CRC \div 256>>

\* binary.Read(i.Conn, binary.LittleEndian, &inputBuffer) on 8 bytes
decodeInput(bytes) ==
    [Payload |-> [k \in 0..5 |-> bytes[k + 1]], CRC |-> bytes[7] + 256 * bytes[8]]

---------------------------------------------------------------------------
(* Errors and results *)

NoError == [id |-> "nil", msg |-> ""]
\* var ErrCRCFailure = errors.New("CRC Failure"): one value, compared by identity
ErrCRCFailure == [id |-> "ErrCRCFailure", msg |-> "CRC Failure"]
\* errors.New(s) at line 66: a fresh error value carrying s
ErrorsNew(s) == [id |-> "errors.New", msg |-> s]
\* errors of the byte stream
IOError(name) == [id |-> "io", msg |-> name]

NilBytes == [isNil |-> TRUE, bytes |-> <<>>]
Bytes(b) == [isNil |-> FALSE, bytes |-> b]

\* The label table of the transmission states.
transmissionStates ==
    [t \in {0} \cup (52..58) |->
        CASE t = TSOk -> "Ok"
          [] t = TSCommandNotImplemented -> "Command is not implemented"
          [] t = TSVariableDoesNotExist -> "Variable does not exist"
          [] t = TSValueOutOfRange -> "Variable value is out of range"
          [] t = TSEEpromNotAccessible -> "EEProm not accessible"
          [] t = TSMicroError -> "Microprocessor Error"
          [] t = TSNotExecuted -> "Not Executed"
          [] t = TSVariableNotAvailable -> "Variable not available"]

\* The other label tables.  A table has one entry for every named code of
\* its type's const block; what the labels say is not needed, so the label
\* stored at key c of table T is written "T[c]".
\*   GlobalState    iota 0..38 with two blanks (28, 29), then iota + 58 from the blank at 39
\*   InverterState  iota 0..31, then iota + 7 from the blank at 32
\*   DCDCState      iota 0..19 with a blank at 3
\*   AlarmState     iota 0..62
\*   Product        'i' 'o' 'I' 'O' '5' '6' 'P' 'C' '4' '3' '2' '1' 'D' 'X'
\*   ProductSpec    'A' 'E' 'S' 'I' 'U' 'K' 'F'
labelKeys(kind) ==
    CASE kind = "TransmissionState" -> DOMAIN transmissionStates
      [] kind = "GlobalState" -> (0..27) \cup (30..38) \cup (98..101)
      [] kind = "InverterState" -> (0..31) \cup (40..47)
      [] kind = "DCDCState" -> (0..2) \cup (4..19)
      [] kind = "AlarmState" -> 0..62
      [] kind = "DSParameter" ->
            { DSParameter(DSParameterBlock[i]) :
                 i \in { j \in 1..Len(DSParameterBlock) : DSParameterBlock[j] # "_" } }
      [] kind = "Product" -> {105, 111, 73, 79, 53, 54, 80, 67, 52, 51, 50, 49, 68, 88}
      [] kind = "ProductSpec" -> {65, 69, 83, 73, 85, 75, 70}
      [] kind = "InverterType" -> {78, 84}
      [] kind = "InputType" -> {78, 87}

labelTable(kind) ==
    IF kind = "TransmissionState"
    THEN transmissionStates
    ELSE [c \in labelKeys(kind) |-> kind \o "[" \o ToString(c) \o "]"]

\* TransmissionStateString with the blank that Product.String puts before the parenthesis
TransmissionStateStringSpaced(t) ==
    IF t \in DOMAIN transmissionStates
    THEN transmissionStates[t]
    ELSE "Unknown TransmissionState (" \o ToString(t) \o ")"

\* func (t TransmissionState) String(), types.go 131-137
TransmissionStateString(t) ==
    IF t \in DOMAIN transmissionStates
    THEN transmissionStates[t]
    ELSE "Unknown TransmissionState(" \o ToString(t) \o ")"

\* func (a AlarmState) String(), types.go 139-145
AlarmStateString(a) ==
    IF a \in DOMAIN labelTable("AlarmState")
    THEN labelTable("AlarmState")[a]
    ELSE "Unknown AlarmState(" \o ToString(a) \o ")"

\* func (g GlobalState) String(), types.go 151-157
GlobalStateString(g) ==
    IF g \in DOMAIN labelTable("GlobalState")
    THEN labelTable("GlobalState")[g]
    ELSE "Unknown GlobalState(" \o ToString(g) \o ")"

\* func (i InverterState) String(), types.go 159-165
InverterStateString(i) ==
    IF i \in DOMAIN labelTable("InverterState")
    THEN labelTable("InverterState")[i]
    ELSE "Unknown InverterState(" \o ToString(i) \o ")"

\* func (d DCDCState) String(), types.go 167-173
DCDCStateString(d) ==
    IF d \in DOMAIN labelTable("DCDCState")
    THEN labelTable("DCDCState")[d]
    ELSE "Unknown DCDCState(" \o ToString(d) \o ")"

\* func (d DSParameter) String(), types.go 175-180
DSParameterString(d) ==
    IF d \in DOMAIN labelTable("DSParameter")
    THEN labelTable("DSParameter")[d]
    ELSE "Unknown DSParameter(" \o ToString(d) \o ")"

\* func (p Product) String(), types.go 182-187
ProductString(p) ==
    IF p \in DOMAIN labelTable("Product")
    THEN labelTable("Product")[p]
    ELSE "Unknown Product (" \o ToString(p) \o ")"

\* func (p ProductSpec) String(), types.go 189-194
ProductSpecString(p) ==
    IF p \in DOMAIN labelTable("ProductSpec")
    THEN labelTable("ProductSpec")[p]
    ELSE "Unknown ProductSpec (" \o ToString(p) \o ")"

\* func (i InverterType) String(), types.go 196-201
InverterTypeString(i) ==
    IF i \in DOMAIN labelTable("InverterType")
    THEN labelTable("InverterType")[i]
    ELSE "Unknown InverterType (" \o ToString(i) \o ")"

\* func (m InputType) String(), types.go 203-208
InputTypeString(m) ==
    IF m \in DOMAIN labelTable("InputType")
    THEN labelTable("InputType")[m]
    ELSE "Unknown InputType (" \o ToString(m) \o ")"

\* the String method of the receiver's type
StringOf(r) ==
    CASE r.kind = "TransmissionState" -> TransmissionStateString(r.code)
      [] r.kind = "AlarmState" -> AlarmStateString(r.code)
      [] r.kind = "GlobalState" -> GlobalStateString(r.code)
      [] r.kind = "InverterState" -> InverterStateString(r.code)
      [] r.kind = "DCDCState" -> DCDCStateString(r.code)
      [] r.kind = "DSParameter" -> DSParameterString(r.code)
      [] r.kind = "Product" -> ProductString(r.code)
      [] r.kind = "ProductSpec" -> ProductSpecString(r.code)
      [] r.kind = "InverterType" -> InverterTypeString(r.code)
      [] r.kind = "InputType" -> InputTypeString(r.code)

\* Lines 65-73: the transmission state and the command's offset
checkState(cmd, buf) ==
    IF buf.Payload[0] # 0
    THEN [result |-> NilBytes, err |-> ErrorsNew(TransmissionStateString(buf.Payload[0]))]
    ELSE IF cmd = GetState
    THEN [result |-> Bytes(Slice(buf.Payload, 1, 6)), err |-> NoError]
    ELSE [result |-> Bytes(Slice(buf.Payload, 2, 6)), err |-> NoError]

\* checkInput that returns the part and serial number before it looks at the CRC
checkInputVerbatimFirst(cmd, buf) ==
    IF cmd = GetPartNumber \/ cmd = GetSerialNumber
    THEN [result |-> Bytes(Slice(buf.Payload, 0, 6)), err |-> NoError]
    ELSE IF calculateCRC(Slice(buf.Payload, 0, 6)) # buf.CRC
    THEN [result |-> NilBytes, err |-> ErrCRCFailure]
    ELSE checkState(cmd, buf)

\* checkInput that looks at the transmission state before the CRC
checkInputStateFirst(cmd, buf) ==
    IF cmd # GetPartNumber /\ cmd # GetSerialNumber /\ buf.Payload[0] # 0
    THEN [result |-> NilBytes, err |-> ErrorsNew(TransmissionStateString(buf.Payload[0]))]
    ELSE IF calculateCRC(Slice(buf.Payload, 0, 6)) # buf.CRC
    THEN [result |-> NilBytes, err |-> ErrCRCFailure]
    ELSE IF cmd = GetPartNumber \/ cmd = GetSerialNumber
    THEN [result |-> Bytes(Slice(buf.Payload, 0, 6)), err |-> NoError]
    ELSE checkState(cmd, buf)

\* checkInput that never looks at the transmission state
checkInputNoState(cmd, buf) ==
    IF calculateCRC(Slice(buf.Payload, 0, 6)) # buf.CRC
    THEN [result |-> NilBytes, err |-> ErrCRCFailure]
    ELSE IF cmd = GetPartNumber \/ cmd = GetSerialNumber
    THEN [result |-> Bytes(Slice(buf.Payload, 0, 6)), err |-> NoError]
    ELSE IF cmd = GetState
    THEN [result |-> Bytes(Slice(buf.Payload, 1, 6)), err |-> NoError]
    ELSE [result |-> Bytes(Slice(buf.Payload, 2, 6)), err |-> NoError]

\* checkInput that treats the part and serial number like any other command
checkInputNoVerbatim(cmd, buf) ==
    IF calculateCRC(Slice(buf.Payload, 0, 6)) # buf.CRC
    THEN [result |-> NilBytes, err |-> ErrCRCFailure]
    ELSE checkState(cmd, buf)

\* checkInput that returns Payload[2:] for GetState too
checkInputOneOffset(cmd, buf) ==
    IF calculateCRC(Slice(buf.Payload, 0, 6)) # buf.CRC
    THEN [result |-> NilBytes, err |-> ErrCRCFailure]
    ELSE IF cmd = GetPartNumber \/ cmd = GetSerialNumber
    THEN [result |-> Bytes(Slice(buf.Payload, 0, 6)), err |-> NoError]
    ELSE IF buf.Payload[0] # 0
    THEN [result |-> NilBytes, err |-> ErrorsNew(TransmissionStateString(buf.Payload[0]))]
    ELSE [result |-> Bytes(Slice(buf.Payload, 2, 6)), err |-> NoError]

\* Lines 57-73: what Communicate returns for a frame that was read in full.
checkInput(cmd, buf) ==
    IF calculateCRC(Slice(buf.Payload, 0, 6)) # buf.CRC
    THEN [result |-> NilBytes, err |-> ErrCRCFailure]
    ELSE IF cmd = GetPartNumber \/ cmd = GetSerialNumber
    THEN [result |-> Bytes(Slice(buf.Payload, 0, 6)), err |-> NoError]
    ELSE IF buf.Payload[0] # 0
    THEN [result |-> NilBytes, err |-> ErrorsNew(TransmissionStateString(buf.Payload[0]))]
    ELSE IF cmd = GetState
    THEN [result |-> Bytes(Slice(buf.Payload, 1, 6)), err |-> NoError]
    ELSE [result |-> Bytes(Slice(buf.Payload, 2, 6)), err |-> NoError]


---------------------------------------------------------------------------
(* The device and the line: the other end of Inverter.Conn *)

\* calculateCRC of the mock device (the test file's own copy of the loop)
mockCRC(input) == CRCInit - crcLoop(CRCInit, input, 1)

\* expect(): binary.Write of the 6 bytes, then of the CRC, little-endian
deviceFrame(res) == LET crc == mockCRC(res) IN res \o <<crc % 256, crc \div 256>>

\* The response payloads the device answers with
DevicePayloads ==
    { <<0, 6, 2, 7, 2, 0>>,         \* a state
      <<0, 6, 0, 0, 48, 57>>,       \* the energy 12345
      <<45, 49, 50, 51, 52, 45>>,   \* "-1234-"
      <<52, 2, 3, 4, 5, 6>>,        \* command not implemented
      <<55, 2, 3, 4, 5, 6>>,        \* EEProm not accessible
      <<99, 1, 2, 3, 4, 5>> }       \* a code outside the table

DeviceFrames == { deviceFrame(res) : res \in DevicePayloads }

\* What happens to a frame on the line: nothing, the CRC field off by one
\* (makeCRCError), or one of the 48 payload bits flipped.
Corruptions ==
    { [kind |-> "none", bit |-> 0], [kind |-> "crc+1", bit |-> 0] }
    \cup { [kind |-> "flip", bit |-> b] : b \in 0..47 }

corrupt(frame, c) ==
    CASE c.kind = "none" -> frame
      [] c.kind = "crc+1" ->
            LET crc == (frame[7] + 256 * frame[8] + 1) % 65536
            IN  SubSeq(frame, 1, 6) \o <<crc % 256, crc \div 256>>
      [] c.kind = "flip" ->
            [frame EXCEPT ![(c.bit \div 8) + 1] = FlipBit(@, c.bit % 8)]

\* How many bytes of a response arrive before the device closes its end
ShortLens == {0, 4}

\* How many bytes of a request the peer takes before it closes its end
WriteFailLens == {0, 5}

---------------------------------------------------------------------------
(* Callers *)

Addresses == {0, 2}

Commands == {GetState, GetPartNumber, GetVersion, GetSerialNumber, GetCumulatedEnergy}

\* Arguments of the concrete types Byte, CumulationPeriod, Counter, DSParameter
Arg(type, v) == [type |-> type, v |-> v]

\* Argument lists are the prefixes, up to MaxArgs long, of two endless lists:
\* Byte(1), Byte(2), ... and one that mixes the types and holds 0 and 32.
ArgPool ==
    << [i \in 1..MaxArgs |-> Arg("Byte", i)],
       [i \in 1..MaxArgs |->
            CASE i % 4 = 1 -> Arg("CumulationPeriod", CumulatedMonthly)
              [] i % 4 = 2 -> Arg("Byte", 32)
              [] i % 4 = 3 -> Arg("Byte", 0)
              [] OTHER -> Arg("DSParameter", 21 + i)] >>

ArgLists == { SubSeq(ArgPool[p], 1, k) : p \in 1..2, k \in 0..MaxArgs }

Ops == {"Communicate", "PartNumber", "SerialNumber"}

\* an entry point that takes nothing besides command and arguments
NoParam == [kind |-> "none"]

\* The exchanges a caller can start: Communicate with any command and
\* argument list, or a typed accessor with its fixed command.
Calls ==
    { [op |-> "Communicate", command |-> c, args |-> as, param |-> NoParam] :
         c \in Commands, as \in ArgLists }
    \cup { [op |-> "PartNumber", command |-> GetPartNumber, args |-> <<>>, param |-> NoParam],
           [op |-> "SerialNumber", command |-> GetSerialNumber, args |-> <<>>, param |-> NoParam] }

NoValue == [kind |-> "none", str |-> <<>>]
\* a Go string, as its bytes
String(b) == [kind |-> "string", str |-> b]
\* a nil pointer or nil slice
Nil == [kind |-> "nil"]
\* what an entry point returns: its value and its error
Returned(v, e) == [value |-> v, err |-> e]

---------------------------------------------------------------------------
(* Integers of 32 and 64 bits, as their bytes, least significant first *)

InverterEpochOffset == 946706400

\* the k bytes of n, 0 <= n < 2^31
Digits(n, k) == [i \in 1..k |-> IF i > 4 THEN 0 ELSE (n \div (256 ^ (i - 1))) % 256]

RECURSIVE addDigits(_, _, _, _)
addDigits(a, b, i, carry) ==
    IF i > Len(a) THEN <<>>
    ELSE LET s == a[i] + b[i] + carry
         IN  <<s % 256>> \o addDigits(a, b, i + 1, s \div 256)

\* a + b on two integers of Len(a) bytes: the carry out of the top byte is lost
Add(a, b) == addDigits(a, b, 1, 0)

RECURSIVE subDigits(_, _, _, _)
subDigits(a, b, i, borrow) ==
    IF i > Len(a) THEN <<>>
    ELSE LET d == a[i] - b[i] - borrow
         IN  <<d % 256>> \o subDigits(a, b, i + 1, IF d < 0 THEN 1 ELSE 0)

\* a - b on two integers of Len(a) bytes, in two's complement
Sub(a, b) == subDigits(a, b, 1, 0)

\* column i of the long multiplication of a by b
RECURSIVE column(_, _, _, _)
column(a, b, i, j) ==
    IF j > i THEN 0 ELSE a[j] * b[i - j + 1] + column(a, b, i, j + 1)

RECURSIVE mulDigits(_, _, _, _)
mulDigits(a, b, i, carry) ==
    IF i > Len(a) THEN <<>>
    ELSE LET s == column(a, b, i, 1) + carry
         IN  <<s % 256>> \o mulDigits(a, b, i + 1, s \div 256)

\* a * b on two integers of Len(a) bytes: the bytes above the top one are lost
Mul(a, b) == mulDigits(a, b, 1, 0)

\* int64(x) of a uint32 x, and uint32(x) of an int64 x
Int64(x) == x \o <<0, 0, 0, 0>>
Uint32(x) == SubSeq(x, 1, 4)

\* binary.BigEndian.Uint32(b): b[0] is the most significant byte
BigEndianUint32(b) == <<b[4], b[3], b[2], b[1]>>

\* time.Second, in nanoseconds
Second == Digits(1000000000, 8)

---------------------------------------------------------------------------
(* Values of the types the entry points return or decode into *)

StateValue(g, i, c1, c2, a) ==
    [kind |-> "State", Global |-> g, Inverter |-> i, Channel1 |-> c1, Channel2 |-> c2, Alarm |-> a]
VersionValue(m, r, t, i) ==
    [kind |-> "Version", Model |-> m, Regulation |-> r, Transformer |-> t, Type |-> i]
\* a []AlarmState or []byte with its elements
SliceValue(kind, elems) == [kind |-> kind, elems |-> elems]
Uint16Value(n) == [kind |-> "uint16", n |-> n]
Uint32Value(n) == [kind |-> "uint32", n |-> n]
\* a float32, as the bits math.Float32frombits is handed
Float32Value(bits) == [kind |-> "float32", bits |-> bits]
\* time.Unix(sec, 0)
Unix(sec) == [kind |-> "time", sec |-> sec]
\* a time.Duration, in nanoseconds
Duration(ns) == [kind |-> "Duration", ns |-> ns]
ConfigurationState(n) == [kind |-> "ConfigurationState", n |-> n]
\* the two strings of ManufactureDate, in the order they are returned
YearWeek(year, week) == [kind |-> "strings", strs |-> <<year, week>>]

\* encoding/binary's size of the value behind v
dataSize(dest) ==
    CASE dest.kind = "State" -> 5
      [] dest.kind = "Version" -> 4
      [] dest.kind \in {"[]AlarmState", "[]byte"} -> Len(dest.elems)
      [] dest.kind = "uint16" -> 2
      [] dest.kind = "float32" -> 4

\* encoding/binary's big-endian decoding of dataSize(dest) bytes into dest:
\* struct fields and slice elements in order, numbers high byte first
decodeBigEndian(dest, b) ==
    CASE dest.kind = "State" -> StateValue(b[1], b[2], b[3], b[4], b[5])
      [] dest.kind = "Version" -> VersionValue(b[1], b[2], b[3], b[4])
      [] dest.kind \in {"[]AlarmState", "[]byte"} -> SliceValue(dest.kind, b)
      [] dest.kind = "uint16" -> Uint16Value(256 * b[1] + b[2])
      [] dest.kind = "float32" -> Float32Value(BigEndianUint32(b))

\* binary.Read(bytes.NewReader(result), binary.BigEndian, v), line 82: the
\* reader must hold dataSize bytes, what it holds beyond them is left unread
binaryRead(bytes, dest) ==
    IF Len(bytes) = 0
    THEN [dest |-> dest, err |-> IOError("EOF")]
    ELSE IF Len(bytes) < dataSize(dest)
    THEN [dest |-> dest, err |-> IOError("unexpected EOF")]
    ELSE [dest |-> decodeBigEndian(dest, SubSeq(bytes, 1, dataSize(dest))), err |-> NoError]

---------------------------------------------------------------------------
(* The entry points, given what their Communicate call returned *)

\* CommunicateVar that decodes whatever Communicate returned
CommunicateVarNoErrorCheck(dest, res, e) == binaryRead(res.bytes, dest)

\* CommunicateVar lines 78-82
CommunicateVar(dest, res, e) ==
    IF e # NoError THEN [dest |-> dest, err |-> e] ELSE binaryRead(res.bytes, dest)

\* CommCheck lines 103-106
CommCheck(res, e) == Returned(NoValue, e)

\* State that decodes into a struct whose channels are declared in the other order
StateChannelsSwapped(res, e) ==
    LET r == CommunicateVar(StateValue(0, 0, 0, 0, 0), res, e)
    IN  IF r.err # NoError THEN Returned(Nil, r.err)
        ELSE Returned([r.dest EXCEPT !.Channel1 = r.dest.Channel2,
                                     !.Channel2 = r.dest.Channel1], NoError)

\* State lines 109-117
State(res, e) ==
    LET r == CommunicateVar(StateValue(0, 0, 0, 0, 0), res, e)
    IN  IF r.err # NoError THEN Returned(Nil, r.err) ELSE Returned(r.dest, NoError)

\* Last4Alarms lines 120-127
Last4Alarms(res, e) ==
    LET r == CommunicateVar(SliceValue("[]AlarmState", <<0, 0, 0, 0>>), res, e)
    IN  IF r.err # NoError THEN Returned(Nil, r.err) ELSE Returned(r.dest, NoError)

\* PartNumber lines 130-136
PartNumber(res, e) ==
    IF e # NoError THEN Returned(String(<<>>), e) ELSE Returned(String(res.bytes), NoError)

\* SerialNumber lines 139-145
SerialNumber(res, e) ==
    IF e # NoError THEN Returned(String(<<>>), e) ELSE Returned(String(res.bytes), NoError)

\* Version lines 148-154
Version(res, e) ==
    LET r == CommunicateVar(VersionValue(0, 0, 0, 0), res, e)
    IN  IF r.err # NoError THEN Returned(Nil, r.err) ELSE Returned(r.dest, NoError)

\* ManufactureDate that takes the year from the first two bytes
ManufactureDateYearFirst(res, e) ==
    IF e # NoError THEN Returned(YearWeek(<<>>, <<>>), e)
    ELSE Returned(YearWeek(SubSeq(res.bytes, 1, 2), SubSeq(res.bytes, 3, 4)), NoError)

\* ManufactureDate lines 157-165: year = result[2:4], week = result[0:2]
ManufactureDate(res, e) ==
    IF e # NoError THEN Returned(YearWeek(<<>>, <<>>), e)
    ELSE Returned(YearWeek(SubSeq(res.bytes, 3, 4), SubSeq(res.bytes, 1, 2)), NoError)

\* fmt's %c of rune(b) for a byte b: the UTF-8 encoding of U+0000..U+00FF
FormatRune(b) == IF b < 128 THEN <<b>> ELSE <<192 + (b \div 64), 128 + (b % 64)>>

\* FirmwareVersion lines 168-179: "%c.%c.%c.%c"
FirmwareVersion(res, e) ==
    IF e # NoError THEN Returned(String(<<>>), e)
    ELSE Returned(String(FormatRune(res.bytes[1]) \o <<46>> \o FormatRune(res.bytes[2]) \o <<46>>
                         \o FormatRune(res.bytes[3]) \o <<46>> \o FormatRune(res.bytes[4])),
                  NoError)

\* Configuration that returns the zero value of its type with an error
ConfigurationZeroOnError(res, e) ==
    IF e # NoError THEN Returned(ConfigurationState(0), e)
    ELSE Returned(ConfigurationState(res.bytes[1]), NoError)

\* Configuration lines 182-188
Configuration(res, e) ==
    IF e # NoError THEN Returned(ConfigurationState(255), e)
    ELSE Returned(ConfigurationState(res.bytes[1]), NoError)

\* GetCumulatedEnergy that reads the four bytes low byte first
InverterGetCumulatedEnergyLittleEndian(res, e) ==
    IF e # NoError THEN Returned(Uint32Value(Digits(0, 4)), e)
    ELSE Returned(Uint32Value(res.bytes), NoError)

\* GetCumulatedEnergy lines 191-197
InverterGetCumulatedEnergy(res, e) ==
    IF e # NoError THEN Returned(Uint32Value(Digits(0, 4)), e)
    ELSE Returned(Uint32Value(BigEndianUint32(res.bytes)), NoError)

\* GetDSPData lines 230-234: f is returned whatever err is
GetDSPData(res, e) ==
    LET r == CommunicateVar(Float32Value(Digits(0, 4)), res, e)
    IN  Returned(r.dest, r.err)

\* Joules that decodes its uint16 from the last two bytes
JoulesLowWord(res, e) ==
    LET r == CommunicateVar(Uint16Value(0), [res EXCEPT !.bytes = SubSeq(@, 3, Len(@))], e)
    IN  Returned(r.dest, r.err)

\* Joules lines 287-291: s is returned whatever err is
Joules(res, e) ==
    LET r == CommunicateVar(Uint16Value(0), res, e)
    IN  Returned(r.dest, r.err)

\* GetTime with binary.LittleEndian in place of binary.BigEndian
InverterGetTimeLittleEndian(res, e) ==
    IF e # NoError THEN Returned(Unix(Digits(0, 8)), e)
    ELSE Returned(Unix(Int64(Add(Digits(InverterEpochOffset, 4), res.bytes))), NoError)

\* GetTime lines 294-300: the sum at line 299 is a uint32 sum, converted to
\* int64 afterwards
InverterGetTime(res, e) ==
    IF e # NoError THEN Returned(Unix(Digits(0, 8)), e)
    ELSE Returned(Unix(Int64(Add(Digits(InverterEpochOffset, 4), BigEndianUint32(res.bytes)))),
                  NoError)

\* SetTime's arguments with the low byte of the value first
SetTimeArgsLittleEndian(t) ==
    LET val == Uint32(Sub(t.sec, Digits(InverterEpochOffset, 8)))
    IN  <<Arg("Byte", val[1]), Arg("Byte", val[2]), Arg("Byte", val[3]), Arg("Byte", val[4])>>

\* SetTime lines 305-309: val is the int64 difference cut to uint32 (line
\* 305's value), bvalue its four bytes as binary.Write(buf, binary.BigEndian,
\* value) lays them out
SetTimeArgs(t) ==
    LET val == Uint32(Sub(t.sec, Digits(InverterEpochOffset, 8)))
        bvalue == <<val[4], val[3], val[2], val[1]>>
    IN  <<Arg("Byte", bvalue[1]), Arg("Byte", bvalue[2]), Arg("Byte", bvalue[3]),
          Arg("Byte", bvalue[4])>>

\* SetTime lines 309-310
InverterSetTime(res, e) == Returned(NoValue, e)

\* GetCounterData lines 314-320
GetCounterData(res, e) ==
    IF e # NoError THEN Returned(Uint32Value(Digits(0, 4)), e)
    ELSE Returned(Uint32Value(BigEndianUint32(res.bytes)), NoError)

\* getDuration with the product taken on 32 bits and widened afterwards
getDurationNarrow(res, e) ==
    LET r == GetCounterData(res, e)
    IN  IF r.err # NoError THEN Returned(Duration(Digits(0, 8)), r.err)
        ELSE Returned(Duration(Int64(Mul(r.value.n, Uint32(Second)))), NoError)

\* getDuration lines 322-328: time.Duration(result) * time.Second on int64
getDuration(res, e) ==
    LET r == GetCounterData(res, e)
    IN  IF r.err # NoError THEN Returned(Duration(Digits(0, 8)), r.err)
        ELSE Returned(Duration(Mul(Int64(r.value.n), Second)), NoError)

\* ResetRunTime lines 346-349
ResetRunTime(res, e) == Returned(NoValue, GetCounterData(res, e).err)

\* The entry points that hand Communicate a fixed command and no argument
FixedCommand ==
    [CommCheck |-> GetVersion, State |-> GetState, Last4Alarms |-> GetLast4Alarms,
     PartNumber |-> GetPartNumber, SerialNumber |-> GetSerialNumber, Version |-> GetVersion,
     ManufactureDate |-> GetManufacturingDate, FirmwareVersion |-> GetFirmwareVersion,
     Configuration |-> GetConfiguration, Joules |-> GetLast10SecEnergy, GetTime |-> GetTime]

\* DailyEnergy .. PartialEnergy, lines 200-227
EnergyPeriod ==
    [DailyEnergy |-> CumulationPeriod("CumulatedDaily"),
     WeeklyEnergy |-> CumulationPeriod("CumulatedWeekly"),
     MonthlyEnergy |-> CumulationPeriod("CumulatedMonthly"),
     YearlyEnergy |-> CumulationPeriod("CumulatedYearly"),
     TotalEnergy |-> CumulationPeriod("CumulatedTotal"),
     PartialEnergy |-> CumulationPeriod("CumulatedPartial")]

\* Frequency .. BoosterTemperature, lines 237-284
DSPOf ==
    [Frequency |-> DSParameter("DSPFrequency"),
     GridVoltage |-> DSParameter("DSPGridVoltage"),
     GridCurrent |-> DSParameter("DSPGridCurrent"),
     GridPower |-> DSParameter("DSPGridPower"),
     Input1Voltage |-> DSParameter("DSPInput1Voltage"),
     Input1Current |-> DSParameter("DSPInput1Current"),
     Input2Voltage |-> DSParameter("DSPInput2Voltage"),
     Input2Current |-> DSParameter("DSPInput2Current"),
     InverterTemperature |-> DSParameter("DSPInverterTemperature"),
     BoosterTemperature |-> DSParameter("DSPBoosterTemperature")]

\* TotalRunTime .. ResetRunTime, lines 331-349
RunTimeCounter ==
    [TotalRunTime |-> Counter("CounterTotal"), PartialRunTime |-> Counter("CounterPartial"),
     GridRunTime |-> Counter("CounterGrid"), ResetRunTime |-> Counter("CounterReset")]

\* The Communicate call the entry point o makes when it is handed p
request(o, p) ==
    CASE o \in DOMAIN FixedCommand -> [command |-> FixedCommand[o], args |-> <<>>]
      [] o = "GetCumulatedEnergy" -> [command |-> GetCumulatedEnergy, args |-> <<p>>]
      [] o \in DOMAIN EnergyPeriod ->
            [command |-> GetCumulatedEnergy, args |-> <<Arg("CumulationPeriod", EnergyPeriod[o])>>]
      [] o = "GetDSPData" -> [command |-> GetDSP, args |-> <<p>>]
      [] o \in DOMAIN DSPOf -> [command |-> GetDSP, args |-> <<Arg("DSParameter", DSPOf[o])>>]
      [] o = "SetTime" -> [command |-> SetTime, args |-> SetTimeArgs(p)]
      [] o = "GetCounterData" -> [command |-> GetCounters, args |-> <<p>>]
      [] o \in DOMAIN RunTimeCounter ->
            [command |-> GetCounters, args |-> <<Arg("Counter", RunTimeCounter[o])>>]

\* What the entry point o returns, given what its Communicate call returned;
\* dest is the destination CommunicateVar was handed.
entry(o, dest, res, e) ==
    CASE o = "Communicate" -> Returned(NoValue, e)
      [] o = "CommunicateVar" ->
            LET r == CommunicateVar(dest, res, e) IN Returned(r.dest, r.err)
      [] o = "CommCheck" -> CommCheck(res, e)
      [] o = "State" -> State(res, e)
      [] o = "Last4Alarms" -> Last4Alarms(res, e)
      [] o = "PartNumber" -> PartNumber(res, e)
      [] o = "SerialNumber" -> SerialNumber(res, e)
      [] o = "Version" -> Version(res, e)
      [] o = "ManufactureDate" -> ManufactureDate(res, e)
      [] o = "FirmwareVersion" -> FirmwareVersion(res, e)
      [] o = "Configuration" -> Configuration(res, e)
      [] o = "GetCumulatedEnergy" \/ o \in DOMAIN EnergyPeriod -> InverterGetCumulatedEnergy(res, e)
      [] o = "GetDSPData" \/ o \in DOMAIN DSPOf -> GetDSPData(res, e)
      [] o = "Joules" -> Joules(res, e)
      [] o = "GetTime" -> InverterGetTime(res, e)
      [] o = "SetTime" -> InverterSetTime(res, e)
      [] o = "GetCounterData" -> GetCounterData(res, e)
      [] o \in {"TotalRunTime", "PartialRunTime", "GridRunTime"} -> getDuration(res, e)
      [] o = "ResetRunTime" -> ResetRunTime(res, e)

\* What the destination of a call holds when the call starts
destination(call) == IF call.op = "CommunicateVar" THEN call.param ELSE NoValue

ZeroInput == [Payload |-> [k \in 0..5 |-> 0], CRC |-> 0]

---------------------------------------------------------------------------
(* The state machine *)

Init ==
    /\ Address \in Addresses
    /\ connState = "open"
    /\ connOut = <<>>
    /\ connIn = <<>>
    /\ args = <<>>
    /\ deviceSent = <<>>
    /\ pc = "idle"
    /\ op = "none"
    /\ param = NoParam
    /\ command = 0
    /\ inputBuffer = ZeroInput
    /\ result = NilBytes
    /\ err = NoError
    /\ value = NoValue
    /\ accessorErr = NoError
    /\ received = <<>>
    /\ ioLog = <<>>
    /\ crcInput = <<>>
    /\ crcOut = -1
    /\ StringAtRest
    /\ NoMemo
    /\ MonitorAtRest

IO(kind, n, e) == [op |-> kind, n |-> n, err |-> e]

\* Communicate lines 28-50 when binary.Write succeeds: the frame is on the
\* line and the caller goes on to binary.Read.
CommunicateWrite(call) ==
    /\ pc = "idle"
    /\ connState = "open"
    /\ op' = call.op
    /\ command' = call.command
    /\ args' = call.args
    /\ param' = call.param
    /\ value' = destination(call)
    /\ connOut' = encodeOutput(buildOutput(Address, call.command, call.args))
    /\ ioLog' = <<IO("Write", 10, NoError)>>
    /\ pc' = "reading"
    /\ UNCHANGED <<Address, connState, connIn, deviceSent, inputBuffer, result, err, accessorErr,
                   received, sideVars>>

\* Communicate lines 28-50 when binary.Write fails: the peer took n bytes
\* and closed its end (or had closed it before); return nil, err.
CommunicateWriteError(call, n) ==
    /\ pc = "idle"
    /\ connState \in {"open", "readerGone"}
    /\ connState = "readerGone" => n = 0
    /\ op' = call.op
    /\ command' = call.command
    /\ args' = call.args
    /\ param' = call.param
    /\ connState' = "readerGone"
    /\ ioLog' = <<IO("Write", n, IOError("io: read/write on closed pipe"))>>
    /\ result' = NilBytes
    /\ err' = IOError("io: read/write on closed pipe")
    /\ LET ret == entry(call.op, destination(call), NilBytes,
                        IOError("io: read/write on closed pipe"))
       IN  value' = ret.value /\ accessorErr' = ret.err
    /\ pc' = "done"
    /\ UNCHANGED <<Address, connOut, connIn, deviceSent, inputBuffer, received, sideVars>>

\* The device takes the request off the line and answers with a frame,
\* which the line delivers as it is or corrupted.
DeviceRespond(frame, c) ==
    /\ pc = "reading"
    /\ Len(connOut) = 10
    /\ connState = "open"
    /\ connOut' = <<>>
    /\ args' = <<>>
    /\ param' = NoParam
    /\ deviceSent' = frame
    /\ connIn' = connIn \o corrupt(frame, c)
    /\ UNCHANGED <<Address, connState, pc, op, command, inputBuffer, result, err, value, accessorErr,
                   received, ioLog, sideVars>>

\* The device takes the request, delivers only n bytes of its answer and
\* closes its end.
DeviceShort(frame, n) ==
    /\ pc = "reading"
    /\ Len(connOut) = 10
    /\ connState = "open"
    /\ connOut' = <<>>
    /\ args' = <<>>
    /\ param' = NoParam
    /\ deviceSent' = frame
    /\ connIn' = connIn \o SubSeq(frame, 1, n)
    /\ connState' = "writerGone"
    /\ UNCHANGED <<Address, pc, op, command, inputBuffer, result, err, value, accessorErr, received,
                   ioLog, sideVars>>

\* CommunicateRead that, on a CRC failure, writes the request again and
\* reads once more
CommunicateReadRetry ==
    /\ pc = "reading"
    /\ Len(connIn) >= 8
    /\ LET buf == decodeInput(SubSeq(connIn, 1, 8))
           out == checkInput(command, buf)
           retry == out.err = ErrCRCFailure
       IN  /\ inputBuffer' = buf
           /\ result' = out.result
           /\ err' = IF retry THEN err ELSE out.err
           /\ value' = IF retry THEN value ELSE entry(op, value, out.result, out.err).value
           /\ accessorErr' = IF retry THEN accessorErr
                                       ELSE entry(op, value, out.result, out.err).err
           /\ pc' = IF retry THEN "reading" ELSE "done"
           /\ connOut' = IF retry THEN encodeOutput(buildOutput(Address, command, <<>>))
                                   ELSE connOut
           /\ ioLog' = IF retry
                        THEN ioLog \o <<IO("Read", 8, NoError), IO("Write", 10, NoError)>>
                        ELSE Append(ioLog, IO("Read", 8, NoError))
    /\ received' = SubSeq(connIn, 1, 8)
    /\ connIn' = SubSeq(connIn, 9, Len(connIn))
    /\ UNCHANGED <<Address, connState, args, deviceSent, op, param, command, sideVars>>

\* CommunicateRead that takes the six payload bytes first and leaves the two
\* CRC bytes on the stream when the device refused the command
CommunicateReadStateEarly ==
    /\ pc = "reading"
    /\ Len(connIn) >= 8
    /\ LET buf == decodeInput(SubSeq(connIn, 1, 8))
           early == command # GetPartNumber /\ command # GetSerialNumber /\ buf.Payload[0] # 0
           out == IF early THEN checkState(command, buf) ELSE checkInput(command, buf)
           n == IF early THEN 6 ELSE 8
       IN  /\ inputBuffer' = buf
           /\ result' = out.result
           /\ err' = out.err
           /\ value' = entry(op, value, out.result, out.err).value
           /\ accessorErr' = entry(op, value, out.result, out.err).err
           /\ received' = SubSeq(connIn, 1, n)
           /\ connIn' = SubSeq(connIn, n + 1, Len(connIn))
           /\ ioLog' = Append(ioLog, IO("Read", 8, NoError))
    /\ pc' = "done"
    /\ UNCHANGED <<Address, connState, connOut, args, deviceSent, op, param, command, sideVars>>

\* CommunicateRead on a handle that stays failed once a frame failed the CRC check
CommunicateReadSticky ==
    /\ pc = "reading"
    /\ Len(connIn) >= 8
    /\ LET buf == decodeInput(SubSeq(connIn, 1, 8))
           out == IF \E m \in memo : m.outcome.err = ErrCRCFailure
                  THEN [result |-> NilBytes, err |-> ErrCRCFailure]
                  ELSE checkInput(command, buf)
       IN  /\ inputBuffer' = buf
           /\ result' = out.result
           /\ err' = out.err
           /\ value' = entry(op, value, out.result, out.err).value
           /\ accessorErr' = entry(op, value, out.result, out.err).err
    /\ received' = SubSeq(connIn, 1, 8)
    /\ connIn' = SubSeq(connIn, 9, Len(connIn))
    /\ ioLog' = Append(ioLog, IO("Read", 8, NoError))
    /\ pc' = "done"
    /\ UNCHANGED <<Address, connState, connOut, args, deviceSent, op, param, command, sideVars>>

\* Communicate lines 52-74 when binary.Read gets its 8 bytes.
CommunicateRead ==
    /\ pc = "reading"
    /\ Len(connIn) >= 8
    /\ LET buf == decodeInput(SubSeq(connIn, 1, 8))
           out == checkInput(command, buf)
       IN  /\ inputBuffer' = buf
           /\ result' = out.result
           /\ err' = out.err
           /\ value' = entry(op, value, out.result, out.err).value
           /\ accessorErr' = entry(op, value, out.result, out.err).err
    /\ received' = SubSeq(connIn, 1, 8)
    /\ connIn' = SubSeq(connIn, 9, Len(connIn))
    /\ ioLog' = Append(ioLog, IO("Read", 8, NoError))
    /\ pc' = "done"
    /\ UNCHANGED <<Address, connState, connOut, args, deviceSent, op, param, command, sideVars>>

\* CommunicateReadError that drops binary.Read's error and goes on with the
\* bytes it got, the rest of inputBuffer left zero
CommunicateReadErrorIgnored ==
    /\ pc = "reading"
    /\ Len(connIn) < 8
    /\ connState = "writerGone"
    /\ LET e == IOError(IF Len(connIn) = 0 THEN "EOF" ELSE "unexpected EOF")
           buf == decodeInput(connIn \o [k \in 1..(8 - Len(connIn)) |-> 0])
           out == checkInput(command, buf)
       IN  /\ inputBuffer' = buf
           /\ result' = out.result
           /\ err' = out.err
           /\ value' = entry(op, value, out.result, out.err).value
           /\ accessorErr' = entry(op, value, out.result, out.err).err
           /\ ioLog' = Append(ioLog, IO("Read", Len(connIn), e))
    /\ received' = connIn
    /\ connIn' = <<>>
    /\ pc' = "done"
    /\ UNCHANGED <<Address, connState, connOut, args, deviceSent, op, param, command, sideVars>>

\* Communicate lines 52-55 when the stream ends before the 8th byte:
\* binary.Read returns io.EOF (nothing read) or io.ErrUnexpectedEOF.
CommunicateReadError ==
    /\ pc = "reading"
    /\ Len(connIn) < 8
    /\ connState = "writerGone"
    /\ LET e == IOError(IF Len(connIn) = 0 THEN "EOF" ELSE "unexpected EOF")
       IN  /\ result' = NilBytes
           /\ err' = e
           /\ value' = entry(op, value, NilBytes, e).value
           /\ accessorErr' = entry(op, value, NilBytes, e).err
           /\ ioLog' = Append(ioLog, IO("Read", Len(connIn), e))
    /\ received' = connIn
    /\ connIn' = <<>>
    /\ pc' = "done"
    /\ UNCHANGED <<Address, connState, connOut, args, deviceSent, op, param, command, inputBuffer,
                   sideVars>>

\* The call has returned: its locals are gone.
callReturns ==
    /\ pc = "done"
    /\ pc' = "idle"
    /\ op' = "none"
    /\ command' = 0
    /\ args' = <<>>
    /\ param' = NoParam
    /\ deviceSent' = <<>>
    /\ inputBuffer' = ZeroInput
    /\ result' = NilBytes
    /\ err' = NoError
    /\ value' = NoValue
    /\ accessorErr' = NoError
    /\ received' = <<>>
    /\ ioLog' = <<>>

\* The call has returned; the caller is free to start the next exchange.
Return ==
    /\ callReturns
    /\ UNCHANGED <<Address, connState, connOut, connIn, sideVars>>

Next ==
    \/ \E call \in Calls : CommunicateWrite(call)
    \/ \E call \in Calls, n \in WriteFailLens : CommunicateWriteError(call, n)
    \/ \E frame \in DeviceFrames, c \in Corruptions : DeviceRespond(frame, c)
    \/ \E frame \in DeviceFrames, n \in ShortLens : DeviceShort(frame, n)
    \/ CommunicateRead
    \/ CommunicateReadError
    \/ Return

Spec == Init /\ [][Next]_vars

---------------------------------------------------------------------------
(* The typed entry points on one handle *)

\* the instants SetTime is handed, as time.Unix(sec, 0): the one of
\* TestSetTime, the inverter's epoch, the second before it, the Unix epoch,
\* one past the year 2106, the last second of a signed 32-bit clock and
\* the last second of an unsigned one
Times ==
    { Unix(Digits(1479650783, 8)),
      Unix(Digits(InverterEpochOffset, 8)),
      Unix(Digits(InverterEpochOffset - 1, 8)),
      Unix(Digits(0, 8)),
      Unix(Add(Digits(InverterEpochOffset + 5, 8), <<0, 0, 0, 0, 1, 0, 0, 0>>)),
      Unix(Digits(2147483647, 8)),
      Unix(<<255, 255, 255, 255, 0, 0, 0, 0>>) }

\* the destinations CommunicateVar is handed: TestCommunicateVarError's five
\* bytes, four bytes and a uint16, none of them zero
Destinations ==
    { SliceValue("[]byte", <<9, 9, 9, 9, 9>>),
      SliceValue("[]byte", <<7, 7, 7, 7>>),
      Uint16Value(4660) }

call(o, p) ==
    [op |-> o, command |-> request(o, p).command, args |-> request(o, p).args, param |-> p]

AccessorCalls ==
    { call(o, NoParam) : o \in DOMAIN FixedCommand \cup DOMAIN EnergyPeriod
                               \cup DOMAIN DSPOf \cup DOMAIN RunTimeCounter }
    \cup { call("GetCumulatedEnergy", Arg("CumulationPeriod", CumulationPeriod(p))) :
              p \in {"CumulatedDaily", "CumulatedWeekly", "CumulatedMonthly", "CumulatedYearly",
                     "CumulatedTotal", "CumulatedPartial"} }
    \cup { call("GetDSPData", Arg("DSParameter", DSParameter(p))) :
              p \in {"DSPFrequency", "DSPGridVoltagePhaseT"} }
    \cup { call("GetCounterData", Arg("Counter", Counter(p))) :
              p \in {"CounterTotal", "CounterPartial", "CounterGrid", "CounterReset"} }
    \cup { call("SetTime", t) : t \in Times }
    \cup { [op |-> "CommunicateVar", command |-> c, param |-> d,
            args |-> IF c = GetCumulatedEnergy
                     THEN <<Arg("CumulationPeriod", CumulatedMonthly)>> ELSE <<>>] :
              c \in {GetCumulatedEnergy, GetState}, d \in Destinations }

\* Response payloads: those of the accessors' tests, 32-bit values around
\* the points where a 32-bit sum wraps, and a refusal by the device
AccessorPayloads ==
    { <<0, 6, 2, 7, 2, 0>>,          \* TestState
      <<0, 6, 0, 0, 48, 57>>,        \* TestDailyEnergy: 12345
      <<0, 6, 31, 196, 21, 255>>,    \* TestGetTime: 0x1FC415FF
      <<0, 6, 199, 146, 104, 31>>,   \* 2^32 - InverterEpochOffset - 1
      <<0, 6, 199, 146, 104, 32>>,   \* 2^32 - InverterEpochOffset
      <<0, 6, 255, 255, 255, 255>>,  \* 2^32 - 1
      <<0, 6, 0, 82, 0, 0>>,         \* TestJoules
      <<0, 6, 0, 0, 0, 100>>,        \* TestTotalRunTime: 100 seconds
      <<0, 6, 1, 2, 3, 4>>,
      <<0, 6, 48, 49, 49, 48>>,      \* TestManufactureDate: "0110"
      <<0, 6, 99, 49, 50, 51>>,      \* TestFirmwareVersion: "c123"
      <<0, 6, 73, 75, 78, 78>>,      \* TestVersion
      <<0, 6, 66, 72, 0, 0>>,        \* a float32: 50.0
      <<53, 6, 0, 0, 48, 57>> }      \* TSVariableDoesNotExist

AccessorFrames == { deviceFrame(res) : res \in AccessorPayloads }

\* the line delivers a frame as it is, with a wrong CRC, or with one bit of
\* payload byte 3 flipped
AccessorCorruptions ==
    { [kind |-> "none", bit |-> 0], [kind |-> "crc+1", bit |-> 0], [kind |-> "flip", bit |-> 25] }

InitAccessors == Init /\ Address = 2

NextAccessors ==
    \/ \E c \in AccessorCalls : CommunicateWrite(c)
    \/ \E c \in AccessorCalls, n \in WriteFailLens : CommunicateWriteError(c, n)
    \/ \E frame \in AccessorFrames, c \in AccessorCorruptions : DeviceRespond(frame, c)
    \/ \E frame \in AccessorFrames, n \in ShortLens : DeviceShort(frame, n)
    \/ CommunicateRead
    \/ CommunicateReadError
    \/ Return

SpecAccessors == InitAccessors /\ [][NextAccessors]_vars

---------------------------------------------------------------------------
(* calculateCRC on its own *)

\* longest byte sequence built from CRCBytes
MaxCRCLen == 2

CRCBytes == {0, 1, 2, 32, 56, 128, 255}

RECURSIVE SeqsUpTo(_, _)
SeqsUpTo(S, n) ==
    IF n = 0 THEN {<<>>}
    ELSE LET shorter == SeqsUpTo(S, n - 1)
         IN  shorter \cup { Append(q, b) : q \in shorter, b \in S }

\* the vectors of TestCalculateCRC
CRCTestVectors ==
    { <<32, 32, 32, 32, 32, 32, 32, 32>>,
      <<2, 56, 32, 32, 32, 32, 32, 32>>,
      <<2, 56, 1, 2, 3, 4, 5, 6>> }

CRCInputs == SeqsUpTo(CRCBytes, MaxCRCLen) \cup CRCTestVectors \cup DevicePayloads

InitCRC ==
    /\ Address = 0
    /\ connState = "open"
    /\ connOut = <<>>
    /\ connIn = <<>>
    /\ args = <<>>
    /\ deviceSent = <<>>
    /\ pc = "idle"
    /\ op = "none"
    /\ param = NoParam
    /\ command = 0
    /\ inputBuffer = ZeroInput
    /\ result = NilBytes
    /\ err = NoError
    /\ value = NoValue
    /\ accessorErr = NoError
    /\ received = <<>>
    /\ ioLog = <<>>
    /\ crcInput \in CRCInputs
    /\ crcOut = -1
    /\ StringAtRest
    /\ NoMemo
    /\ MonitorAtRest

CalculateCRC ==
    /\ crcOut = -1
    /\ crcOut' = calculateCRC(crcInput)
    /\ UNCHANGED <<crcInput, exchangeVars, stringVars, memo, monitorVars>>

NextCRC == CalculateCRC

SpecCRC == InitCRC /\ [][NextCRC]_vars

---------------------------------------------------------------------------
(* The String methods of the code-table types, each run on every byte *)

\* no exchange is under way on the handle
ExchangeAtRest ==
    /\ Address = 0
    /\ connState = "open"
    /\ connOut = <<>>
    /\ connIn = <<>>
    /\ args = <<>>
    /\ deviceSent = <<>>
    /\ pc = "idle"
    /\ op = "none"
    /\ param = NoParam
    /\ command = 0
    /\ inputBuffer = ZeroInput
    /\ result = NilBytes
    /\ err = NoError
    /\ value = NoValue
    /\ accessorErr = NoError
    /\ received = <<>>
    /\ ioLog = <<>>

\* calculateCRC is not being run
CRCAtRest ==
    /\ crcInput = <<>>
    /\ crcOut = -1

\* the types of types.go 69-98 that have a label table
Kinds ==
    { "TransmissionState", "AlarmState", "GlobalState", "InverterState", "DCDCState",
      "DSParameter", "Product", "ProductSpec", "InverterType", "InputType" }

\* every value of every code-table type
Receivers == [kind : Kinds, code : 0..255]

InitStrings ==
    /\ ExchangeAtRest
    /\ CRCAtRest
    /\ receiver \in Receivers
    /\ strPc = "call"
    /\ str = ""
    /\ NoMemo
    /\ MonitorAtRest

\* receiver.String()
StringCall ==
    /\ strPc = "call"
    /\ str' = StringOf(receiver)
    /\ strPc' = "done"
    /\ UNCHANGED <<receiver, exchangeVars, crcVars, memo, monitorVars>>

NextStrings == StringCall

SpecStrings == InitStrings /\ [][NextStrings]_vars

---------------------------------------------------------------------------
(* Read accessors repeated on one handle, every exchange remembered *)

\* what the exchange was handed: the handle's address, the entry point and
\* its command, and what the stream did (the bytes read, the stream's results)
Handed == [Address |-> Address, op |-> op, command |-> command, received |-> received,
           ioLog |-> ioLog]

\* what the entry point returned
Outcome == [result |-> result, err |-> err, value |-> value, accessorErr |-> accessorErr]

RepeatCalls == { call(o, NoParam) : o \in {"GetTime", "Joules"} }

\* the response of TestGetTime and a refusal by the device
RepeatFrames == { deviceFrame(<<0, 6, 31, 196, 21, 255>>), deviceFrame(<<53, 6, 0, 0, 48, 57>>) }

RepeatCorruptions == { [kind |-> "none", bit |-> 0], [kind |-> "crc+1", bit |-> 0] }

InitRepeat == Init /\ Address = 2

\* Return, the exchange entered in memo
ReturnRemembered ==
    /\ callReturns
    /\ memo' = memo \cup {[handed |-> Handed, outcome |-> Outcome]}
    /\ UNCHANGED <<Address, connState, connOut, connIn, crcVars, stringVars, monitorVars>>

NextRepeat ==
    \/ \E c \in RepeatCalls : CommunicateWrite(c)
    \/ \E c \in RepeatCalls : CommunicateWriteError(c, 0)
    \/ \E frame \in RepeatFrames, c \in RepeatCorruptions : DeviceRespond(frame, c)
    \/ \E frame \in RepeatFrames : DeviceShort(frame, 4)
    \/ CommunicateRead
    \/ CommunicateReadError
    \/ ReturnRemembered

SpecRepeat == InitRepeat /\ [][NextRepeat]_vars

---------------------------------------------------------------------------
(* cmd/monitor: the goroutine of one device, the goroutines withDeadline   *)
(* starts and the /json handler.  An exchange is two steps, its start and  *)
(* its return; what it reads is left open apart from success or failure.   *)

\* device.UnitAddresses of the configured device
UnitAddresses == <<2, 3>>

\* the accessor reads of one poll (lines 212-280 make 18)
Reads == 2

\* the withDeadline calls that are followed
MaxCalls == 4

\* try.Do stops after the attempt for which the function returns false: attempt < 3
MaxAttempts == 3

\* everything outside the monitor but the handle's Address
offMonitor == <<connState, connOut, connIn, args, deviceSent, pc, op, param, command, inputBuffer,
                result, err, value, accessorErr, received, ioLog, crcVars, stringVars, memo>>

\* the serial number the inverter at address a answers with
Serial(a) == "serial of " \o ToString(a)

\* &result{Address: a, SerialNumber: sn}: no measurement is set.  A
\* measurement is 0 or the number of the attempt that read it.
NewResult(a, sn) == [Address |-> a, SerialNumber |-> sn, meas |-> [k \in 1..Reads |-> 0]]

\* a result nothing refers to any more but the goroutine that fills it
Abandoned == [Address |-> 0, SerialNumber |-> "", meas |-> <<>>]

\* the lock goroutine g holds on buffer
held(g) == IF mu.writer = g THEN "write" ELSE IF g \in mu.readers THEN "read" ELSE "none"

\* goroutine g reads or writes buffer.Results ("map") or a result in it
Access(g, kind, what) == [by |-> g, kind |-> kind, what |-> what, lock |-> held(g)]

\* a goroutine nothing is left of
Gone(r) == [pc |-> "gone", kind |-> "poll", unit |-> 0, attempt |-> 0, next |-> 0, addr |-> 0,
            r |-> r, got |-> "", err |-> "nil"]

InitMonitor ==
    /\ ExchangeAtRest
    /\ CRCAtRest
    /\ StringAtRest
    /\ NoMemo
    /\ mainPc = "register"
    /\ unit = 1
    /\ calls = 0
    /\ returnedErr = "nil"
    /\ chans = <<>>
    /\ workers = <<>>
    /\ Results = <<>>
    /\ mu = [writer |-> "none", readers |-> {}]
    /\ handlerPc = "idle"
    /\ fault = "none"

\* withDeadline lines 75-83: the channel is made and the goroutine started;
\* r is the result the function it runs fills
start(kind, r) ==
    /\ calls' = calls + 1
    /\ chans' = Append(chans, [buf |-> <<>>, closed |-> FALSE])
    /\ workers' = Append(workers, [pc |-> "run", kind |-> kind, unit |-> unit, attempt |-> 1,
                                   next |-> 1, addr |-> 0, r |-> r, got |-> "", err |-> "nil"])

\* main lines 175-182: the address is set on the handle, its result entered
\* in buffer.Results with no lock held, and withDeadline called.  The map
\* write may meet the handler's reading of the map.
Register ==
    /\ fault = "none"
    /\ mainPc = "register"
    /\ Address' = UnitAddresses[unit]
    /\ Results' = Append(Results, NewResult(UnitAddresses[unit], ""))
    /\ fault' \in IF handlerPc = "marshal"
                  THEN {"none", "fatal error: concurrent map read and map write"}
                  ELSE {"none"}
    /\ start("startup", Abandoned)
    /\ mainPc' = "startupSelect"
    /\ UNCHANGED <<unit, returnedErr, mu, handlerPc, offMonitor>>

\* main lines 187-190: Fatal ends the process
afterStartup(e) ==
    IF e # "nil" THEN "exited"
    ELSE IF unit < Len(UnitAddresses) THEN "register" ELSE "pollRLock"

\* afterPoll that takes the lock whatever withDeadline returned
afterPollAlways(e) == "pollLock"

\* main lines 287-291: if err == nil
afterPoll(e) == IF e = "nil" THEN "pollLock" ELSE "pollNext"

\* withDeadline lines 84-93 and the deferred close(c) of line 76: select
\* took a case, e is returned and c is closed; nothing receives from c any
\* more.  A result that is not going to be published is referred to by
\* nothing but the function that fills it.
withDeadlineReturns(e) ==
    /\ fault = "none"
    /\ mainPc \in {"startupSelect", "pollSelect"}
    /\ returnedErr' = e
    /\ chans' = [chans EXCEPT ![calls] = [buf |-> <<>>, closed |-> TRUE]]
    /\ IF mainPc = "startupSelect"
       THEN /\ mainPc' = afterStartup(e)
            /\ fault' = IF e # "nil" THEN "exit: Startup error" ELSE "none"
            /\ unit' = IF e # "nil" THEN unit
                       ELSE IF unit < Len(UnitAddresses) THEN unit + 1 ELSE 1
            /\ workers' = workers
       ELSE /\ mainPc' = afterPoll(e)
            /\ fault' = "none"
            /\ unit' = unit
            /\ workers' = IF afterPoll(e) = "pollNext"
                          THEN [workers EXCEPT ![calls].r = Abandoned]
                          ELSE workers
    /\ UNCHANGED <<Address, calls, Results, mu, handlerPc, offMonitor>>

\* case err := <-c (line 85)
WithDeadlineReceive ==
    /\ calls > 0
    /\ chans[calls].buf # <<>>
    /\ withDeadlineReturns(chans[calls].buf[1])

\* case <-time.After(deadline) (line 90): the timer may fire at any time
WithDeadlineTimeout == withDeadlineReturns("timeout")

\* main line 197: buffer.RLock()
PollRLock ==
    /\ fault = "none"
    /\ mainPc = "pollRLock"
    /\ calls < MaxCalls
    /\ mu.writer = "none"
    /\ mu' = [mu EXCEPT !.readers = @ \cup {"main"}]
    /\ mainPc' = "pollPrepare"
    /\ UNCHANGED <<Address, unit, calls, returnedErr, chans, workers, Results, handlerPc, fault,
                   offMonitor>>

\* main lines 198-210: the serial number is read from the published result,
\* the address set on the handle, r made, the lock released and withDeadline
\* called.
PollPrepare ==
    /\ fault = "none"
    /\ mainPc = "pollPrepare"
    /\ Address' = UnitAddresses[unit]
    /\ start("poll", NewResult(UnitAddresses[unit], Results[unit].SerialNumber))
    /\ mu' = [mu EXCEPT !.readers = @ \ {"main"}]
    /\ mainPc' = "pollSelect"
    /\ UNCHANGED <<unit, returnedErr, Results, handlerPc, fault, offMonitor>>

\* main line 288: buffer.Lock()
PollLock ==
    /\ fault = "none"
    /\ mainPc = "pollLock"
    /\ mu.writer = "none"
    /\ mu.readers = {}
    /\ mu' = [mu EXCEPT !.writer = "main"]
    /\ mainPc' = "pollPublish"
    /\ UNCHANGED <<Address, unit, calls, returnedErr, chans, workers, Results, handlerPc, fault,
                   offMonitor>>

\* main lines 289-290: buffer.Results[name] = r; buffer.Unlock()
PollPublish ==
    /\ fault = "none"
    /\ mainPc = "pollPublish"
    /\ Results' = [Results EXCEPT ![unit] = workers[calls].r]
    /\ workers' = [workers EXCEPT ![calls].r = Abandoned]
    /\ mu' = [mu EXCEPT !.writer = "none"]
    /\ mainPc' = "pollNext"
    /\ UNCHANGED <<Address, unit, calls, returnedErr, chans, handlerPc, fault, offMonitor>>

\* main lines 292-293: the next address, after the last one the next tick;
\* err is a variable of the iteration that ends
PollNext ==
    /\ fault = "none"
    /\ mainPc = "pollNext"
    /\ unit' = IF unit < Len(UnitAddresses) THEN unit + 1 ELSE 1
    /\ returnedErr' = "nil"
    /\ mainPc' = "pollRLock"
    /\ UNCHANGED <<Address, calls, chans, workers, Results, mu, handlerPc, fault, offMonitor>>

\* try.Do after the function returned e in worker wk: the result goes to the
\* channel when e is nil or the attempt was the third, else the function is
\* run again
tryDo(wk, e) ==
    IF e = "nil" \/ wk.attempt >= MaxAttempts
    THEN [wk EXCEPT !.pc = "send", !.err = e]
    ELSE [wk EXCEPT !.pc = "run", !.attempt = @ + 1, !.next = 1, !.err = "nil", !.got = ""]

\* the goroutine of call w starts its next exchange: Communicate reads
\* i.Address (aurora.go line 30).  At start-up the function first reads
\* buffer.Results[name] (line 183), no lock held.
WorkerCall(w) ==
    /\ fault = "none"
    /\ workers[w].pc = "run"
    /\ workers' = [workers EXCEPT ![w].pc = "exchange", ![w].addr = Address]
    /\ UNCHANGED <<Address, mainPc, unit, calls, returnedErr, chans, Results, mu, handlerPc, fault,
                   offMonitor>>

\* the exchange of the goroutine of call w returns.  In a poll (lines
\* 212-284) the value, 0 with an error, is stored in r and an error ends the
\* function; at start-up (line 183) the serial number is about to be stored.
WorkerReturn(w, ok) ==
    /\ fault = "none"
    /\ workers[w].pc = "exchange"
    /\ LET wk == [workers[w] EXCEPT !.addr = 0]
           e == IF ok THEN "nil" ELSE "error"
           filled == IF wk.r = Abandoned THEN wk
                     ELSE [wk EXCEPT !.r.meas[wk.next] = IF ok THEN wk.attempt ELSE 0]
       IN  workers' =
             [workers EXCEPT ![w] =
                IF wk.kind = "startup"
                THEN [wk EXCEPT !.pc = "store", !.err = e,
                                !.got = IF ok THEN Serial(workers[w].addr) ELSE ""]
                ELSE IF ok /\ wk.next < Reads
                THEN [filled EXCEPT !.pc = "run", !.next = @ + 1]
                ELSE tryDo(filled, e)]
    /\ UNCHANGED <<Address, mainPc, unit, calls, returnedErr, chans, Results, mu, handlerPc, fault,
                   offMonitor>>

\* main line 183 in the goroutine of call w: the string is stored in the
\* result that buffer.Results holds, no lock held
WorkerStore(w) ==
    /\ fault = "none"
    /\ workers[w].pc = "store"
    /\ Results' = [Results EXCEPT ![workers[w].unit].SerialNumber = workers[w].got]
    /\ workers' = [workers EXCEPT ![w] = tryDo([workers[w] EXCEPT !.got = ""], workers[w].err)]
    /\ UNCHANGED <<Address, mainPc, unit, calls, returnedErr, chans, mu, handlerPc, fault,
                   offMonitor>>

\* withDeadline line 78 in the goroutine of call w: c <- (what try.Do
\* returned).  c holds one value, so the send does not wait; on a closed
\* channel it panics and the process ends.
WorkerSend(w) ==
    /\ fault = "none"
    /\ workers[w].pc = "send"
    /\ IF chans[w].closed
       THEN /\ fault' = "panic: send on closed channel"
            /\ UNCHANGED <<workers, chans>>
       ELSE /\ chans' = [chans EXCEPT ![w].buf = <<workers[w].err>>]
            /\ workers' = [workers EXCEPT ![w] = Gone(workers[w].r)]
            /\ fault' = "none"
    /\ UNCHANGED <<Address, mainPc, unit, calls, returnedErr, Results, mu, handlerPc, offMonitor>>

\* /json handler lines 301-302: buffer.RLock()
HandlerRLock ==
    /\ fault = "none"
    /\ handlerPc = "idle"
    /\ mu.writer = "none"
    /\ mu' = [mu EXCEPT !.readers = @ \cup {"json"}]
    /\ handlerPc' = "marshal"
    /\ UNCHANGED <<Address, mainPc, unit, calls, returnedErr, chans, workers, Results, fault,
                   offMonitor>>

\* What json.Marshal can see of the result of unit u: the result, and where
\* a goroutine is storing its serial number at that time, the old string,
\* the new one or a mix of both.
seen(u) ==
    LET storing == { w \in 1..Len(workers) : workers[w].pc = "store" /\ workers[w].unit = u }
    IN  {Results[u]}
        \cup { [Results[u] EXCEPT !.SerialNumber = sn] :
                  sn \in UNION { {workers[w].got, "torn"} : w \in storing } }

\* /json handler lines 303-313: json.Marshal(buffer.Results), the response
\* is written and the deferred buffer.RUnlock() runs
HandlerServe ==
    /\ fault = "none"
    /\ handlerPc = "marshal"
    /\ mu' = [mu EXCEPT !.readers = @ \ {"json"}]
    /\ handlerPc' = "idle"
    /\ UNCHANGED <<Address, mainPc, unit, calls, returnedErr, chans, workers, Results, fault,
                   offMonitor>>

\* The reads and writes of buffer.Results and of the results in it that the
\* goroutines are about to make, each with the lock its goroutine holds:
\* lines 178, 183 (the map read, then the store), 200-205, 289 and 304.  The
\* goroutines withDeadline starts take no lock.
accesses ==
    { Access("main", "write", "map") : x \in { p \in {"register", "pollPublish"} : p = mainPc } }
    \cup { Access("main", "read", "result") : x \in { p \in {"pollPrepare"} : p = mainPc } }
    \cup { Access("worker", "read", "map") :
              w \in { v \in 1..Len(workers) :
                         workers[v].kind = "startup" /\ workers[v].pc = "run" } }
    \cup { Access("worker", "write", "result") :
              w \in { v \in 1..Len(workers) : workers[v].pc = "store" } }
    \cup { Access("json", "read", "map") : x \in { p \in {"marshal"} : p = handlerPc } }

NextMonitor ==
    \/ Register
    \/ WithDeadlineReceive
    \/ WithDeadlineTimeout
    \/ PollRLock
    \/ PollPrepare
    \/ PollLock
    \/ PollPublish
    \/ PollNext
    \/ \E w \in 1..Len(workers) : WorkerCall(w)
    \/ \E w \in 1..Len(workers), ok \in BOOLEAN : WorkerReturn(w, ok)
    \/ \E w \in 1..Len(workers) : WorkerStore(w)
    \/ \E w \in 1..Len(workers) : WorkerSend(w)
    \/ HandlerRLock
    \/ HandlerServe

SpecMonitor == InitMonitor /\ [][NextMonitor]_vars

---------------------------------------------------------------------------
(* The reference the claims are stated against *)

\* a ^ b on n-bit unsigned integers
RECURSIVE Xor(_, _, _)
Xor(a, b, n) ==
    IF n = 0 THEN 0
    ELSE (((a % 2) + (b % 2)) % 2) + 2 * Xor(a \div 2, b \div 2, n - 1)

\* bit j (0 = the least significant bit of the first byte) of a byte sequence
BitOf(bytes, j) == (bytes[(j \div 8) + 1] \div (2 ^ (j % 8))) % 2

\* One step of the reference CRC: the accumulator is shifted right, and
\* XORed with 0x8408 exactly when its bit 0 differs from the data bit.
crc16Step(acc, bit) ==
    IF Xor(acc % 2, bit, 1) = 1 THEN Xor(acc \div 2, 33800, 16) ELSE acc \div 2

\* The accumulator after bits j .. stop-1 of the bit stream, least
\* significant bit of each byte first (the accumulator is never negative;
\* the test on it only makes its evaluation strict).
RECURSIVE crc16Bits(_, _, _, _)
crc16Bits(acc, bytes, j, stop) ==
    IF j >= stop THEN acc
    ELSE LET next == crc16Step(acc, BitOf(bytes, j))
         IN  IF next >= 0 THEN crc16Bits(next, bytes, j + 1, stop) ELSE next

RECURSIVE crc16Bytes(_, _, _)
crc16Bytes(acc, bytes, n) ==
    IF n > Len(bytes) THEN acc
    ELSE LET next == crc16Bits(acc, bytes, 8 * (n - 1), 8 * n)
         IN  IF next >= 0 THEN crc16Bytes(next, bytes, n + 1) ELSE next

\* the accumulator starts at 0xFFFF; the result is its 16-bit complement
crc16(bytes) == Xor(crc16Bytes(65535, bytes, 1), 65535, 16)

\* the request frame is on the line and the device has not taken it yet
FrameOnLine == pc = "reading" /\ connOut # <<>>

\* the Byte() values of an argument list
ArgBytes(as) == [i \in 1..Len(as) |-> as[i].v]

---------------------------------------------------------------------------
(* Claims *)

\* C1: Communicate writes exactly one 10-byte frame: byte 0 is
\* Inverter.Address, byte 1 the command code, bytes 2..7 argument or padding
\* bytes, bytes 8..9 crc16(bytes 0..7) with the low byte first; the CRC
\* covers the 8 payload bytes only. (TestCommCheck: address 2, GetVersion,
\* no arguments is 02 3a 00 20 20 20 20 20 c9 59.)
C1_OutboundFrame ==
    FrameOnLine =>
        /\ ioLog = <<IO("Write", 10, NoError)>>
        /\ Len(connOut) = 10
        /\ connOut[1] = Address
        /\ connOut[2] = command
        /\ \A k \in 3..8 : connOut[k] \in {0, 32} \cup { ArgBytes(args)[i] : i \in 1..Len(args) }
        /\ connOut[9] + 256 * connOut[10] = crc16(SubSeq(connOut, 1, 8))
        /\ (Address = 2 /\ command = GetVersion /\ args = <<>>)
              => connOut = <<2, 58, 0, 32, 32, 32, 32, 32, 201, 89>>

C1_Witness ==
    /\ FrameOnLine
    /\ Address = 2 /\ command = GetVersion /\ args = <<>>
    /\ connOut = <<2, 58, 0, 32, 32, 32, 32, 32, 201, 89>>

\* C2: with k arguments, 0 <= k <= 5, payload bytes 2..k+1 are the
\* arguments' Byte() values in order, payload byte k+2 is 0 and every later
\* payload byte is 0x20; with k = 6, payload bytes 2..7 are the six argument
\* bytes and there is no terminator.
C2_ArgumentPadding ==
    (FrameOnLine /\ Len(args) <= 6) =>
        LET k == Len(args)
        IN  /\ \A i \in 1..k : connOut[i + 2] = ArgBytes(args)[i]
            /\ k <= 5 => connOut[k + 3] = 0
            /\ \A j \in (k + 4)..8 : connOut[j] = 32

C2_Witness ==
    /\ FrameOnLine
    /\ Len(args) = 4
    /\ ArgBytes(args) = <<3, 32, 0, 25>>
    /\ SubSeq(connOut, 3, 8) = <<3, 32, 0, 25, 0, 32>>

\* C3: for an argument list of length 7 or more, the frame is the 10-byte
\* frame of the list's first 6 arguments: the later arguments are ignored
\* and no error is returned for them.
C3_ArgumentTruncation ==
    (FrameOnLine /\ Len(args) >= 7) =>
        /\ Len(connOut) = 10
        /\ SubSeq(connOut, 1, 8) = <<Address, command>> \o SubSeq(ArgBytes(args), 1, 6)
        /\ connOut[9] + 256 * connOut[10] = crc16(SubSeq(connOut, 1, 8))
        /\ connOut = encodeOutput(buildOutput(Address, command, SubSeq(args, 1, 6)))
        /\ err = NoError
        /\ ioLog = <<IO("Write", 10, NoError)>>

C3_Witness ==
    /\ FrameOnLine
    /\ Len(args) >= 7
    /\ SubSeq(connOut, 3, 8) = <<1, 2, 3, 4, 5, 6>>

\* C4: calculateCRC is the reference CRC on every byte sequence, the empty
\* one included (whose CRC is the complement of 0xFFFF), and
\* crc16([32]*8) = 15784, crc16([2,56,32,32,32,32,32,32]) = 60178,
\* crc16([2,56,1,2,3,4,5,6]) = 53051.
C4_CRCReference ==
    crcOut # -1 =>
        /\ crcOut = crc16(crcInput)
        /\ crcInput = <<>> => crcOut = 0
        /\ crcInput = <<32, 32, 32, 32, 32, 32, 32, 32>> => crcOut = 15784
        /\ crcInput = <<2, 56, 32, 32, 32, 32, 32, 32>> => crcOut = 60178
        /\ crcInput = <<2, 56, 1, 2, 3, 4, 5, 6>> => crcOut = 53051

C4_Witness ==
    /\ crcInput = <<2, 56, 1, 2, 3, 4, 5, 6>>
    /\ crcOut = 53051

\* the call has returned after a write and a read of a full 8-byte frame
FullRead == pc = "done" /\ ioLog = <<IO("Write", 10, NoError), IO("Read", 8, NoError)>>

\* the received frame's payload, and its CRC field read low byte first
RxPayload == SubSeq(received, 1, 6)
RxCRC == received[7] + 256 * received[8]
RxValid == RxCRC = crc16(RxPayload)

\* the number of payload bits in which two frames differ
BitDiff(a, b) == Cardinality({ j \in 0..47 : BitOf(a, j) # BitOf(b, j) })

\* C5: after a successful write and a full 8-byte read, Communicate returns
\* ErrCRCFailure (and a nil slice) if and only if the received CRC field,
\* read little-endian, differs from crc16 of the 6 payload bytes: for every
\* command, GetPartNumber and GetSerialNumber included, whatever the payload.
C5_CRCFailureIff ==
    FullRead =>
        /\ (err = ErrCRCFailure) <=> ~RxValid
        /\ ~RxValid => result = NilBytes

C5_Witness ==
    /\ FullRead
    /\ command = GetPartNumber
    /\ received[1] = 55
    /\ ~RxValid
    /\ err = ErrCRCFailure /\ result = NilBytes

\* C6: when the device sent a payload with its correct CRC and exactly one
\* of the 48 payload bits arrived flipped (the CRC field as sent),
\* Communicate fails with ErrCRCFailure, no other error and no success.
C6_SingleBitFlip ==
    (/\ FullRead
     /\ deviceSent[7] + 256 * deviceSent[8] = crc16(SubSeq(deviceSent, 1, 6))
     /\ SubSeq(received, 7, 8) = SubSeq(deviceSent, 7, 8)
     /\ BitDiff(received, deviceSent) = 1)
    => (err = ErrCRCFailure /\ result = NilBytes)

C6_Witness ==
    /\ FullRead
    /\ command = GetState
    /\ deviceSent = deviceFrame(<<0, 6, 2, 7, 2, 0>>)
    /\ received = [deviceSent EXCEPT ![1] = 128]
    /\ err = ErrCRCFailure

\* C7: for a command other than GetPartNumber and GetSerialNumber, a
\* CRC-valid response whose payload byte 0 is not 0 gives a nil slice and an
\* error whose message is TransmissionState(byte 0).String(): the table's
\* label for a known code ("EEProm not accessible" for 55) and
\* "Unknown TransmissionState(N)" for an unknown code N.
C7_TransmissionStateError ==
    (FullRead /\ RxValid /\ command \notin {GetPartNumber, GetSerialNumber} /\ received[1] # 0)
    => /\ result = NilBytes
       /\ err.id = "errors.New"
       /\ err.msg = TransmissionStateString(received[1])
       /\ received[1] = TSEEpromNotAccessible => err.msg = "EEProm not accessible"
       /\ received[1] = 99 => err.msg = "Unknown TransmissionState(99)"
       /\ received[1] = 45 => err.msg = "Unknown TransmissionState(45)"

C7_Witness ==
    /\ FullRead /\ RxValid
    /\ command = GetCumulatedEnergy
    /\ received[1] = TSEEpromNotAccessible
    /\ err = ErrorsNew("EEProm not accessible")

\* C8: for GetPartNumber and GetSerialNumber every CRC-valid response
\* succeeds with all 6 payload bytes, unmodified and in order, even when
\* payload byte 0 is a transmission-state code; PartNumber and SerialNumber
\* return those 6 bytes as a string of length 6.
C8_VerbatimPayload ==
    (FullRead /\ RxValid /\ command \in {GetPartNumber, GetSerialNumber})
    => /\ err = NoError
       /\ result = Bytes(RxPayload)
       /\ op \in {"PartNumber", "SerialNumber"}
             => value = String(RxPayload) /\ Len(value.str) = 6

C8_Witness ==
    /\ FullRead /\ RxValid
    /\ op = "PartNumber"
    /\ received[1] = TSEEpromNotAccessible
    /\ err = NoError
    /\ value = String(<<55, 2, 3, 4, 5, 6>>)

\* C9: for a CRC-valid response whose payload byte 0 is 0, Communicate
\* returns payload bytes 1..5 for GetState and payload bytes 2..5 for every
\* other command except GetPartNumber and GetSerialNumber, in the order
\* received.
C9_CommandOffset ==
    (FullRead /\ RxValid /\ received[1] = 0
              /\ command \notin {GetPartNumber, GetSerialNumber})
    => /\ err = NoError
       /\ command = GetState => result = Bytes(SubSeq(received, 2, 6))
       /\ command # GetState => result = Bytes(SubSeq(received, 3, 6))

C9_Witness ==
    /\ FullRead /\ RxValid
    /\ command = GetState
    /\ RxPayload = <<0, 6, 2, 7, 2, 0>>
    /\ result = Bytes(<<6, 2, 7, 2, 0>>)

\* C10: a call performs at most one frame write and then at most one frame
\* read: the read starts only after the write returned without error, a
\* failed write returns its error with a nil slice and no read, and no
\* outcome brings a second write or read.
C10_OneWriteThenOneRead ==
    /\ Len(ioLog) <= 2
    /\ pc = "idle" => ioLog = <<>>
    /\ pc = "reading" => ioLog = <<IO("Write", 10, NoError)>>
    /\ pc = "done" =>
          /\ Len(ioLog) >= 1
          /\ ioLog[1].op = "Write"
          /\ ioLog[1].err # NoError =>
                (Len(ioLog) = 1 /\ result = NilBytes /\ err = ioLog[1].err)
          /\ ioLog[1].err = NoError =>
                (Len(ioLog) = 2 /\ ioLog[1].n = 10 /\ ioLog[2].op = "Read")

C10_Witness ==
    /\ pc = "done"
    /\ ioLog = <<IO("Write", 10, NoError), IO("Read", 8, NoError)>>
    /\ err = ErrCRCFailure

\* the call has returned after its read ended before the 8th byte
ShortRead ==
    /\ pc = "done"
    /\ Len(ioLog) = 2
    /\ ioLog[2].op = "Read"
    /\ ioLog[2].n < 8

\* C11: when the stream ends after delivering fewer than 8 bytes of the
\* response, Communicate returns the stream's error (io.EOF when nothing
\* came, io.ErrUnexpectedEOF otherwise) and a nil slice: never ErrCRCFailure,
\* never a transmission-state error, never a slice built from the partial
\* frame.
C11_ShortReadIOError ==
    ShortRead =>
        /\ received = SubSeq(deviceSent, 1, ioLog[2].n)
        /\ result = NilBytes
        /\ err = ioLog[2].err
        /\ err = IOError(IF received = <<>> THEN "EOF" ELSE "unexpected EOF")
        /\ err # ErrCRCFailure
        /\ err.id # "errors.New"
        /\ err # NoError

C11_Witness ==
    /\ ShortRead
    /\ Len(received) = 4
    /\ result = NilBytes
    /\ err = IOError("unexpected EOF")

\* C12: exchanges on one handle follow each other, the device answering
\* each request with one 8-byte frame. Every read that completes takes
\* exactly the 8 bytes the line delivered for this request and leaves
\* nothing behind, whether the call succeeds, fails the CRC check or is
\* refused by the device; what the call returns is decided by its command
\* and these 8 bytes; and between two calls the stream holds no byte of an
\* earlier response, so the next call starts on a frame boundary.
C12_Framing ==
    /\ pc = "idle" => (connIn = <<>> /\ connOut = <<>>)
    /\ FullRead =>
          /\ connIn = <<>>
          /\ Len(received) = 8
          /\ \E c \in Corruptions : received = corrupt(deviceSent, c)
          /\ inputBuffer = decodeInput(received)
          /\ [result |-> result, err |-> err] = checkInput(command, inputBuffer)

C12_Witness ==
    /\ FullRead
    /\ err = ErrorsNew("Command is not implemented")
    /\ received = deviceSent
    /\ connIn = <<>>

\* C13: when the exchange fails, CommunicateVar returns the very error
\* Communicate returned (ErrCRCFailure stays the sentinel) and the
\* destination holds what it held before the call; when the exchange
\* succeeds, destination and error are those of the big-endian decoding of
\* the returned bytes.
C13_CommunicateVarError ==
    [][(pc # "done" /\ pc' = "done" /\ op' = "CommunicateVar") =>
          LET before == IF pc = "idle" THEN param' ELSE value
          IN  /\ err' # NoError => (accessorErr' = err' /\ value' = before)
              /\ err' = NoError =>
                    [dest |-> value', err |-> accessorErr'] = binaryRead(result'.bytes, before)
      ]_vars

C13_Witness ==
    /\ pc = "done"
    /\ op = "CommunicateVar"
    /\ command = GetCumulatedEnergy
    /\ err = ErrCRCFailure
    /\ accessorErr = ErrCRCFailure
    /\ value = SliceValue("[]byte", <<9, 9, 9, 9, 9>>)

\* the call has returned after reading a frame whose CRC is right and whose
\* first payload byte is 0
Accepted == FullRead /\ RxValid /\ RxPayload[1] = 0

\* C14: for every CRC-valid GetState response with payload byte 0 equal to
\* 0, State() returns Global = payload[1], Inverter = payload[2], Channel1 =
\* payload[3], Channel2 = payload[4], Alarm = payload[5] and no error; the
\* payload 00 06 02 07 02 00 gives Global 6 (Run), Inverter 2 (Run),
\* Channel1 7 (Input Low), Channel2 2 (MPPT), Alarm 0 (None).
C14_StateDecoding ==
    (Accepted /\ op = "State") =>
        /\ command = 50
        /\ accessorErr = NoError
        /\ value = [kind |-> "State", Global |-> RxPayload[2], Inverter |-> RxPayload[3],
                    Channel1 |-> RxPayload[4], Channel2 |-> RxPayload[5], Alarm |-> RxPayload[6]]
        /\ RxPayload = <<0, 6, 2, 7, 2, 0>> =>
              value = [kind |-> "State", Global |-> 6, Inverter |-> 2, Channel1 |-> 7,
                       Channel2 |-> 2, Alarm |-> 0]

C14_Witness ==
    /\ Accepted
    /\ op = "State"
    /\ RxPayload = <<0, 6, 2, 7, 2, 0>>
    /\ value = [kind |-> "State", Global |-> 6, Inverter |-> 2, Channel1 |-> 7,
                Channel2 |-> 2, Alarm |-> 0]

\* the four data bytes of the received payload as a 32-bit number, payload
\* byte 2 the most significant: its bytes, least significant first
RxUint32 == <<RxPayload[6], RxPayload[5], RxPayload[4], RxPayload[3]>>

\* C15: for every 32-bit device time v in a successful GetTime response,
\* GetTime returns the instant 946706400 + v seconds after the Unix epoch,
\* the sum taken exactly. (Refuted: see C15_WrappedSum.)
C15_GetTimeExact ==
    (Accepted /\ op = "GetTime") =>
        /\ accessorErr = NoError
        /\ value = [kind |-> "time", sec |-> Add(Digits(946706400, 8), RxUint32 \o <<0, 0, 0, 0>>)]

\* the device time 0xFFFFFFFF comes back as 946706399 seconds after the
\* Unix epoch: the sum has lost its carry out of 32 bits
C15_WrappedSum ==
    /\ Accepted
    /\ op = "GetTime"
    /\ RxPayload = <<0, 6, 255, 255, 255, 255>>
    /\ accessorErr = NoError
    /\ value = [kind |-> "time", sec |-> Digits(946706399, 8)]

\* C16: SetTime(t) sends command 71 with four arguments, the bytes, most
\* significant first, of t.Unix() - 946706400 as a 32-bit value (adding
\* 946706400 to them gives back the low 32 bits of t.Unix()); payload byte 6
\* is the 0 terminator and payload byte 7 is 0x20. It returns nil exactly
\* when the response was read in full and passed the CRC and
\* transmission-state checks, otherwise the exchange's error, and nothing
\* else. (TestSetTime: 2016-11-20T14:06:23Z is 02 47 1f c4 15 ff 00 20 5b db.)
C16_SetTime ==
    /\ (FrameOnLine /\ op = "SetTime") =>
          /\ connOut[2] = 71
          /\ Len(args) = 4
          /\ Add(<<connOut[6], connOut[5], connOut[4], connOut[3]>>, Digits(946706400, 4))
                = SubSeq(param.sec, 1, 4)
          /\ connOut[7] = 0
          /\ connOut[8] = 32
          /\ param.sec = Digits(1479650783, 8)
                => connOut = <<2, 71, 31, 196, 21, 255, 0, 32, 91, 219>>
    /\ (pc = "done" /\ op = "SetTime") =>
          /\ value = NoValue
          /\ accessorErr = err
          /\ accessorErr = NoError <=> Accepted

C16_Witness ==
    /\ FrameOnLine
    /\ op = "SetTime"
    /\ param.sec = Digits(1479650783, 8)
    /\ connOut = <<2, 71, 31, 196, 21, 255, 0, 32, 91, 219>>

\* GetCumulatedEnergy and the six accessors that call it
EnergyOps ==
    {"GetCumulatedEnergy", "DailyEnergy", "WeeklyEnergy", "MonthlyEnergy", "YearlyEnergy",
     "TotalEnergy", "PartialEnergy"}

\* C17: GetCumulatedEnergy(period) sends command 78 with the period
\* selector as its only argument and, for every accepted response, returns
\* payload[2]*2^24 + payload[3]*2^16 + payload[4]*2^8 + payload[5] as a
\* uint32; 00 00 30 39 gives 12345.
C17_CumulatedEnergy ==
    /\ (FrameOnLine /\ op = "GetCumulatedEnergy") =>
          /\ connOut[2] = 78
          /\ connOut[3] = param.v
          /\ connOut[4] = 0
          /\ \A k \in 5..8 : connOut[k] = 32
    /\ (Accepted /\ op \in EnergyOps) =>
          /\ accessorErr = NoError
          /\ value = [kind |-> "uint32", n |-> RxUint32]
          /\ RxPayload[3] < 128 =>
                value.n = Digits(RxPayload[3] * 16777216 + RxPayload[4] * 65536
                                 + RxPayload[5] * 256 + RxPayload[6], 4)
          /\ SubSeq(RxPayload, 3, 6) = <<0, 0, 48, 57>> => value.n = Digits(12345, 4)

C17_Witness ==
    /\ Accepted
    /\ op = "GetCumulatedEnergy"
    /\ SubSeq(RxPayload, 3, 6) = <<0, 0, 48, 57>>
    /\ value = [kind |-> "uint32", n |-> Digits(12345, 4)]

\* C18: Joules() returns payload[2]*256 + payload[3] and no error for every
\* accepted response, whatever payload[4] and payload[5] hold.
C18_Joules ==
    (Accepted /\ op = "Joules") =>
        /\ accessorErr = NoError
        /\ value = [kind |-> "uint16", n |-> RxPayload[3] * 256 + RxPayload[4]]

C18_Witness ==
    /\ Accepted
    /\ op = "Joules"
    /\ RxPayload = <<0, 6, 1, 2, 3, 4>>
    /\ accessorErr = NoError
    /\ value = [kind |-> "uint16", n |-> 258]

\* C19: ManufactureDate returns two 2-character strings, first the year,
\* taken from response bytes 2-3 (payload bytes 4-5), then the week, taken
\* from response bytes 0-1 (payload bytes 2-3); the payload 00 06 '0' '1'
\* '1' '0' gives year "10" and week "01".
C19_ManufactureDate ==
    (Accepted /\ op = "ManufactureDate") =>
        /\ accessorErr = NoError
        /\ value = [kind |-> "strings",
                    strs |-> << <<RxPayload[5], RxPayload[6]>>, <<RxPayload[3], RxPayload[4]>> >>]
        /\ RxPayload = <<0, 6, 48, 49, 49, 48>> =>
              value.strs = << <<49, 48>>, <<48, 49>> >>

C19_Witness ==
    /\ Accepted
    /\ op = "ManufactureDate"
    /\ RxPayload = <<0, 6, 48, 49, 49, 48>>
    /\ value.strs = << <<49, 48>>, <<48, 49>> >>

\* the command code each typed accessor transmits and, where it has one,
\* its selector byte (-1: none)
AccessorCodes ==
    [CommCheck |-> <<58, -1>>, State |-> <<50, -1>>, PartNumber |-> <<52, -1>>,
     Version |-> <<58, -1>>, SerialNumber |-> <<63, -1>>, ManufactureDate |-> <<65, -1>>,
     GetTime |-> <<70, -1>>, SetTime |-> <<71, -1>>, FirmwareVersion |-> <<72, -1>>,
     Joules |-> <<76, -1>>, Configuration |-> <<77, -1>>, Last4Alarms |-> <<86, -1>>,
     DailyEnergy |-> <<78, 0>>, WeeklyEnergy |-> <<78, 1>>, MonthlyEnergy |-> <<78, 3>>,
     YearlyEnergy |-> <<78, 4>>, TotalEnergy |-> <<78, 5>>, PartialEnergy |-> <<78, 6>>,
     TotalRunTime |-> <<80, 0>>, PartialRunTime |-> <<80, 1>>, GridRunTime |-> <<80, 2>>,
     ResetRunTime |-> <<80, 3>>,
     GridVoltage |-> <<59, 1>>, GridCurrent |-> <<59, 2>>, GridPower |-> <<59, 3>>,
     Frequency |-> <<59, 4>>, InverterTemperature |-> <<59, 21>>,
     BoosterTemperature |-> <<59, 22>>, Input1Voltage |-> <<59, 23>>,
     Input1Current |-> <<59, 25>>, Input2Voltage |-> <<59, 26>>, Input2Current |-> <<59, 27>>]

\* the names of a const block, each with a value of its own
DistinctValues(block, val(_)) ==
    \A i, j \in 1..Len(block) :
        (i < j /\ block[i] # "_" /\ block[j] # "_") =>
            (block[i] # block[j] /\ val(block[i]) # val(block[j]))

\* the codes of the four enumerations, and each name with a value of its own
EnumerationsAsListed ==
    /\ <<GetState, GetPartNumber, GetVersion, GetDSP, GetSerialNumber, GetManufacturingDate,
         GetTime, SetTime, GetFirmwareVersion, GetLast10SecEnergy, GetConfiguration,
         GetCumulatedEnergy, GetCounters, GetLast4Alarms>>
          = <<50, 52, 58, 59, 63, 65, 70, 71, 72, 76, 77, 78, 80, 86>>
    /\ [n \in 1..6 |-> CumulationPeriod(<<"CumulatedDaily", "CumulatedWeekly", "CumulatedMonthly",
                                          "CumulatedYearly", "CumulatedTotal",
                                          "CumulatedPartial">>[n])]
          = <<0, 1, 3, 4, 5, 6>>
    /\ [n \in 1..4 |-> Counter(<<"CounterTotal", "CounterPartial", "CounterGrid",
                                 "CounterReset">>[n])]
          = <<0, 1, 2, 3>>
    /\ [n \in 1..10 |-> DSParameter(<<"DSPGridVoltage", "DSPGridCurrent", "DSPGridPower",
                                      "DSPFrequency", "DSPInverterTemperature",
                                      "DSPBoosterTemperature", "DSPInput1Voltage",
                                      "DSPInput1Current", "DSPInput2Voltage",
                                      "DSPInput2Current">>[n])]
          = <<1, 2, 3, 4, 21, 22, 23, 25, 26, 27>>
    /\ DistinctValues(CommandBlock, Command)
    /\ DistinctValues(CumulationPeriodBlock, CumulationPeriod)
    /\ DistinctValues(DSParameterBlock, DSParameter)
    /\ DistinctValues(CounterBlock, Counter)

\* C20: every typed accessor transmits its fixed command code and, where it
\* has one, its selector byte followed by the terminator; the codes of the
\* four enumerations are the listed ones, gaps included, and no two names of
\* one enumeration share a value.
C20_Codes ==
    /\ (FrameOnLine /\ op \in DOMAIN AccessorCodes) =>
          /\ connOut[2] = AccessorCodes[op][1]
          /\ AccessorCodes[op][2] >= 0 =>
                (connOut[3] = AccessorCodes[op][2] /\ connOut[4] = 0)
          /\ (AccessorCodes[op][2] < 0 /\ op # "SetTime") => connOut[3] = 0
    /\ (FrameOnLine /\ op \in {"GetCumulatedEnergy", "GetDSPData", "GetCounterData"}) =>
          /\ connOut[2] = (CASE op = "GetCumulatedEnergy" -> 78
                             [] op = "GetDSPData" -> 59
                             [] op = "GetCounterData" -> 80)
          /\ connOut[3] = param.v
          /\ connOut[4] = 0
    /\ EnumerationsAsListed

C20_Witness ==
    /\ FrameOnLine
    /\ op = "Input1Current"
    /\ connOut[2] = 59
    /\ connOut[3] = 25
    /\ connOut[4] = 0


---------------------------------------------------------------------------
(* Claims C21, C22: string rendering of the code tables *)

\* n in decimal, as %d prints a byte
Decimal(n) ==
    LET digit(d) == <<"0", "1", "2", "3", "4", "5", "6", "7", "8", "9">>[d + 1]
    IN  IF n < 10 THEN digit(n)
        ELSE IF n < 100 THEN digit(n \div 10) \o digit(n % 10)
        ELSE digit(n \div 100) \o digit((n \div 10) % 10) \o digit(n % 10)

StringReturned(kind) == strPc = "done" /\ receiver.kind = kind

\* C21: TransmissionState.String returns for every one of the 256 byte values:
\* the table's label for a mapped code ("Ok" for 0, "EEProm not accessible"
\* for TSEEpromNotAccessible) and "Unknown TransmissionState(N)", N in
\* decimal, for every other code; the call can always be made.
C21_TransmissionStateString ==
    /\ (strPc = "call" /\ receiver.kind = "TransmissionState") => ENABLED StringCall
    /\ StringReturned("TransmissionState") =>
          LET n == receiver.code
          IN  /\ n = 0 => str = "Ok"
              /\ n = TSEEpromNotAccessible => str = "EEProm not accessible"
              /\ n \in {0} \cup (52..58) => str = transmissionStates[n]
              /\ n \notin {0} \cup (52..58) =>
                    str = "Unknown TransmissionState(" \o Decimal(n) \o ")"

\* TransmissionState(99).String() returned the fallback of the test
C21_Witness ==
    /\ StringReturned("TransmissionState")
    /\ receiver.code = 99
    /\ str = "Unknown TransmissionState(99)"

\* C22: for every code-table type and every byte that is not a key of its
\* table, String() returns "Unknown <Kind>(<value>)": the kind's name, then
\* at once the decimal value in parentheses.
C22_Fallback ==
    \A kind \in Kinds :
        (StringReturned(kind) /\ receiver.code \notin labelKeys(kind)) =>
            str = "Unknown " \o kind \o "(" \o Decimal(receiver.code) \o ")"

\* Product(0).String() returned, with a blank before the parenthesis
C22_ProductFallback ==
    /\ StringReturned("Product")
    /\ receiver.code = 0
    /\ str = "Unknown Product (0)"


---------------------------------------------------------------------------
(* Claim C23: counters and run times *)

\* a * m for a small m (m < 2^20), on Len(a) bytes, by one pass with carry
RECURSIVE scale(_, _, _, _)
scale(a, m, i, carry) ==
    IF i > Len(a) THEN <<>>
    ELSE LET s == a[i] * m + carry
         IN  <<s % 256>> \o scale(a, m, i + 1, s \div 256)

\* v seconds in nanoseconds, v a 32-bit number, on 10 bytes: nothing is lost
Nanoseconds(v) ==
    scale(scale(scale(v \o <<0, 0, 0, 0, 0, 0>>, 1000, 1, 0), 1000, 1, 0), 1000, 1, 0)

RunTimeOps == {"TotalRunTime", "PartialRunTime", "GridRunTime"}

\* C23: for every accepted GetCounters response GetCounterData returns the
\* 32-bit value v of payload bytes 2..5, byte 2 the most significant, and
\* TotalRunTime, PartialRunTime and GridRunTime return v seconds: the
\* duration's 64-bit nanosecond count is v * 10^9 with no bit lost and the
\* sign bit clear.
C23_RunTime ==
    /\ (Accepted /\ op = "GetCounterData") =>
          /\ accessorErr = NoError
          /\ value = [kind |-> "uint32", n |-> RxUint32]
    /\ (Accepted /\ op \in RunTimeOps) =>
          /\ accessorErr = NoError
          /\ value.kind = "Duration"
          /\ value.ns = SubSeq(Nanoseconds(RxUint32), 1, 8)
          /\ SubSeq(Nanoseconds(RxUint32), 9, 10) = <<0, 0>>
          /\ value.ns[8] < 128
          /\ RxUint32 = <<100, 0, 0, 0>> => value.ns = <<0, 232, 118, 72, 23, 0, 0, 0>>

\* the largest counter, 2^32 - 1 seconds, came back as 4294967295000000000 ns
C23_Witness ==
    /\ Accepted
    /\ op = "TotalRunTime"
    /\ RxPayload = <<0, 6, 255, 255, 255, 255>>
    /\ value = [kind |-> "Duration", ns |-> <<0, 54, 101, 196, 255, 201, 154, 59>>]


---------------------------------------------------------------------------
(* Claim C24: SetTime and GetTime on the wire *)

\* a < b for two numbers of as many bytes, least significant byte first
RECURSIVE lessFrom(_, _, _)
lessFrom(a, b, i) ==
    IF i = 0 THEN FALSE
    ELSE IF a[i] # b[i] THEN a[i] < b[i]
    ELSE lessFrom(a, b, i - 1)

LessDigits(a, b) == lessFrom(a, b, Len(a))

\* 946706400 <= t.Unix() < 2^32
SettableTime(t) ==
    /\ SubSeq(t.sec, 5, 8) = <<0, 0, 0, 0>>
    /\ ~LessDigits(SubSeq(t.sec, 1, 4), <<224, 151, 109, 56>>)

\* what GetTime returns for the accepted response 00 06 b[1] b[2] b[3] b[4]
GetTimeOf(b) ==
    LET in == checkInput(70, decodeInput(deviceFrame(<<0, 6>> \o b)))
    IN  entry("GetTime", NoValue, in.result, in.err)

\* C24: for every instant t with 946706400 <= t.Unix() < 2^32, GetTime
\* handed a successful response that carries in payload bytes 2..5 the four
\* argument bytes SetTime(t) transmitted returns t and no error; and
\* SetTime handed an instant GetTime returned for a device time below
\* 2^32 - 946706400 transmits that response's bytes 2..5.
C24_SetGetTime ==
    /\ (FrameOnLine /\ op = "SetTime" /\ SettableTime(param)) =>
          GetTimeOf(SubSeq(connOut, 3, 6)) = [value |-> param, err |-> NoError]
    /\ (Accepted /\ op = "GetTime" /\ LessDigits(RxUint32, <<32, 104, 146, 199>>)) =>
          /\ SettableTime(value)
          /\ [k \in 1..4 |-> request("SetTime", value).args[k].v] = SubSeq(RxPayload, 3, 6)

\* SetTime of the last second before 2^32 put c7 92 68 1f on the line, which
\* GetTime reads back as that second
C24_Witness ==
    /\ FrameOnLine
    /\ op = "SetTime"
    /\ param.sec = <<255, 255, 255, 255, 0, 0, 0, 0>>
    /\ SubSeq(connOut, 3, 6) = <<199, 146, 104, 31>>
    /\ GetTimeOf(<<199, 146, 104, 31>>).value.sec = <<255, 255, 255, 255, 0, 0, 0, 0>>


---------------------------------------------------------------------------
(* Claim C25: what the typed accessors return when the exchange failed *)

\* the accessors that return a value besides the error
ValueOps ==
    (DOMAIN FixedCommand \cup DOMAIN EnergyPeriod \cup DOMAIN DSPOf \cup RunTimeOps
        \cup {"GetCumulatedEnergy", "GetDSPData", "GetCounterData"}) \ {"CommCheck"}

\* the value the claim names for each of them
Placeholder(o) ==
    CASE o \in {"State", "Version", "Last4Alarms"} -> [kind |-> "nil"]
      [] o \in {"PartNumber", "SerialNumber", "FirmwareVersion"} -> [kind |-> "string", str |-> <<>>]
      [] o = "ManufactureDate" -> [kind |-> "strings", strs |-> << <<>>, <<>> >>]
      [] o \in EnergyOps \cup {"GetCounterData"} -> [kind |-> "uint32", n |-> <<0, 0, 0, 0>>]
      [] o \in RunTimeOps -> [kind |-> "Duration", ns |-> <<0, 0, 0, 0, 0, 0, 0, 0>>]
      [] o = "Joules" -> [kind |-> "uint16", n |-> 0]
      [] o = "GetDSPData" \/ o \in DOMAIN DSPOf -> [kind |-> "float32", bits |-> <<0, 0, 0, 0>>]
      [] o = "Configuration" -> [kind |-> "ConfigurationState", n |-> 255]
      [] o = "GetTime" -> [kind |-> "time", sec |-> <<0, 0, 0, 0, 0, 0, 0, 0>>]

\* the call is over and Communicate returned an error
ExchangeFailed == pc = "done" /\ err # NoError

\* C25: whenever the exchange failed, a typed accessor returns the
\* exchange's error and its placeholder: nil for State, Version and
\* Last4Alarms, "" for PartNumber, SerialNumber, FirmwareVersion and both
\* strings of ManufactureDate, 0 for the energy, counter, run-time, Joules
\* and DSP accessors, ConfigurationState(255) for Configuration and the Unix
\* epoch for GetTime; the bytes of the failed frame do not show in it.
C25_Placeholders ==
    (ExchangeFailed /\ op \in ValueOps) =>
        /\ accessorErr = err
        /\ value = Placeholder(op)

\* Configuration returned ConfigurationState(255) and ErrCRCFailure for a
\* frame that was read in full and failed the CRC check
C25_Witness ==
    /\ ExchangeFailed
    /\ op = "Configuration"
    /\ FullRead
    /\ ~RxValid
    /\ accessorErr = ErrCRCFailure
    /\ value = [kind |-> "ConfigurationState", n |-> 255]


---------------------------------------------------------------------------
(* Claim C26: the handle is left as it was *)

---------------------------------------------------------------------------
(* Claims C27 to C30: the monitor program *)

\* the calls of withDeadline whose goroutine is inside an exchange
inFlight == { w \in 1..Len(workers) : workers[w].pc = "exchange" }

\* C27: at most one exchange is in flight on the connection, and once
\* withDeadline has returned (its channel is closed) the function it started
\* neither runs nor will run again.
C27_OneExchangeInFlight ==
    /\ Cardinality(inFlight) <= 1
    /\ \A w \in 1..Len(workers) :
          chans[w].closed => workers[w].pc \in {"send", "gone"}

\* the deadline of the poll of address 2 expired, the loop went on to
\* address 3, and the exchanges of both polls are in flight on the one handle
C27_Overlap ==
    /\ fault = "none"
    /\ \E v \in inFlight, w \in inFlight :
          /\ v < w
          /\ chans[v].closed
          /\ mainPc = "pollSelect"
          /\ calls = w
          /\ workers[v].addr = 2
          /\ workers[w].addr = 3
          /\ Address = 3

\* C28: the goroutine of withDeadline sends its result before the channel
\* is closed: it is never about to send on a closed channel, and the program
\* never ends with that panic.
C28_SendBeforeClose ==
    /\ fault # "panic: send on closed channel"
    /\ \A w \in 1..Len(workers) : workers[w].pc = "send" => ~chans[w].closed

\* a poll ran into its deadline and its goroutine, finished later, sent on
\* the closed channel
C28_Panic ==
    /\ fault = "panic: send on closed channel"
    /\ returnedErr \in {"timeout", "nil"}
    /\ \E w \in 1..Len(workers) :
          /\ workers[w].pc = "send"
          /\ workers[w].kind = "poll"
          /\ chans[w].closed

\* every measurement of r was read by one and the same run of the function
Complete(r) == \E a \in 1..MaxAttempts : \A k \in 1..Reads : r.meas[k] = a

\* r is as start-up entered it: no measurement was read
Unmeasured(r) == \A k \in 1..Reads : r.meas[k] = 0

\* the positions of the polling loop
polling == {"pollRLock", "pollPrepare", "pollSelect", "pollLock", "pollPublish", "pollNext"}

\* C29: in the polling loop an entry of buffer.Results is replaced only
\* after withDeadline returned nil, by a result all of whose measurements
\* one run of the reads made; after an error or an expired deadline the
\* entries stay as they are; and what the /json handler can see of an entry
\* is never a result with only some measurements of a cycle.
C29_PublishOnlyComplete ==
    /\ [](handlerPc = "marshal" =>
            \A u \in 1..Len(Results) : \A o \in seen(u) : Complete(o) \/ Unmeasured(o))
    /\ [][ (mainPc \in polling /\ Results' # Results) =>
              /\ mainPc = "pollPublish"
              /\ returnedErr = "nil"
              /\ Complete(Results'[unit])
              /\ \A u \in 1..Len(Results) : u # unit => Results'[u] = Results[u] ]_vars

\* the poll of address 2 was published, the poll of address 3 failed after
\* its first read had succeeded, and the handler, holding the read lock,
\* sees the complete result of address 2 and for address 3 the entry of
\* start-up
C29_Witness ==
    /\ mainPc = "pollNext"
    /\ unit = 2
    /\ returnedErr = "error"
    /\ handlerPc = "marshal"
    /\ Complete(Results[1])
    /\ Results[2] = NewResult(3, Serial(3))
    /\ seen(1) = {Results[1]}

\* C30: every write of buffer.Results or of a result in it is made with the
\* write lock held, every read with the read lock or the write lock held.
C30_LockDiscipline ==
    \A a \in accesses :
        /\ a.kind = "write" => a.lock = "write"
        /\ a.kind = "read" => a.lock \in {"read", "write"}

\* at start-up the goroutine of withDeadline is about to store the serial
\* number in the result of address 3, no lock held, while the /json handler
\* holds the read lock and marshals the map
C30_UnlockedWrite ==
    /\ fault = "none"
    /\ handlerPc = "marshal"
    /\ held("json") = "read"
    /\ mainPc = "startupSelect"
    /\ unit = 2
    /\ Access("worker", "write", "result") \in accesses
    /\ held("worker") = "none"
    /\ "torn" \in { o.SerialNumber : o \in seen(2) }

=============================================================================
